---- MODULE Spec2Model ----
(***************************************************************************)
(* Resume pipeline of job-pilot: the text clean-up and structuring steps   *)
(* of the extract-resume-text route, the rule-based rewrite functions, the *)
(* optimize-resume route and the template renderer.                        *)
(*                                                                         *)
(* A text is a sequence of characters; a character is a one-character      *)
(* string, or the name of its code point ("U2022" is the bullet glyph).    *)
(* Every regular expression of the source is an operator over such         *)
(* sequences that matches what the expression matches.                     *)
(***************************************************************************)
EXTENDS Integers, Sequences, FiniteSets, TLC

VARIABLES
    rwInput,      \* the text handed to a rewrite function
    rwJob,        \* the job description handed with it
    rwFn,         \* the rewrite function applied ("none" before the first call)
    rwOnce,       \* its result on rwInput
    rwTwice,      \* its result on rwOnce
    rwNlp,        \* what the tagger answers for the line (Python rewrite)
    rwPc,         \* "init", "once", "twice"
    exFile,       \* the file of a request to the extract-resume-text route
    exResponse,   \* the response of the route
    exPc,         \* "request", "done"
    stFile,       \* resume store: file
    stJob,        \* resume store: jobDescription
    stLoading,    \* resume store: isLoading
    stResult,     \* resume store: result
    stError,      \* resume store: error
    stData,       \* resume store: resumeData and originalResumeData
    stView,       \* resume store: currentView
    stTemplate,   \* resume store: selectedTemplate
    stOptions,    \* resume store: designOptions
    stSection,    \* resume store: activeSection
    pgStep,       \* optimize page: step
    opReqs,       \* the requests the page has sent to the optimize-resume route
    rnText,       \* the resume text of the editor
    rnData,       \* the resume data parsed from it
    rnTemplate,   \* the selected template
    rnOut,        \* the blocks of the rendered page, in document order
    rnResponse,   \* the response of the export-resume-pdf route
    rnEngine,     \* what puppeteer did for the request: "none", "ok", "fails"
    rnPc,         \* "init", "exported", "rejected", "failed", "previewed"
    edHeap,       \* resume editor: the objects in memory, by their reference
    edDoc,        \* the reference of the resumeData the editor is given
    edPrev,       \* the reference of the resumeData before the last operation
    edPrevValue,  \* the document that edPrev held before the last operation
    edLast,       \* the last operation of the editor and its arguments
    edCount,      \* the number of operations so far
    pdContent,    \* PDF exporter: content
    pdFilename,   \* PDF exporter: filename
    pdLoading,    \* PDF exporter: isLoading
    pdPc,         \* where the generation of the PDF is
    pdOutcomes,   \* the downloads and alerts of the generation, in their order
    pdRuns        \* the number of generations started

rwVars == <<rwInput, rwJob, rwFn, rwOnce, rwTwice, rwNlp, rwPc>>
exVars == <<exFile, exResponse, exPc>>
opVars == <<stFile, stJob, stLoading, stResult, stError, stData, pgStep, opReqs>>
rnVars == <<rnText, rnData, rnTemplate, rnOut, rnResponse, rnEngine, rnPc>>

tmVars == <<stView, stTemplate, stOptions, stSection>>
edVars == <<edHeap, edDoc, edPrev, edPrevValue, edLast, edCount>>
pdVars == <<pdContent, pdFilename, pdLoading, pdPc, pdOutcomes, pdRuns>>

vars == <<rwVars, exVars, opVars, rnVars, edVars, pdVars, tmVars>>

\* a part of the system that takes no part in a specification rests
RewriteIdle ==
    /\ rwInput = <<>>
    /\ rwJob = <<>>
    /\ rwFn = "none"
    /\ rwOnce = <<>>
    /\ rwTwice = <<>>
    /\ rwNlp = "none"
    /\ rwPc = "idle"

ExtractIdle ==
    /\ exFile = "none"
    /\ exResponse = "none"
    /\ exPc = "idle"

\* null of the source, where the other values are records
Null == [null |-> TRUE]

OptimizeIdle ==
    /\ stFile = Null
    /\ stJob = <<>>
    /\ stLoading = FALSE
    /\ stResult = Null
    /\ stError = "null"
    /\ stData = Null
    /\ pgStep = 0
    /\ opReqs = <<>>

RenderIdle ==
    /\ rnText = <<>>
    /\ rnData = "none"
    /\ rnTemplate = "none"
    /\ rnOut = <<>>
    /\ rnResponse = Null
    /\ rnEngine = "none"
    /\ rnPc = "idle"

\* the options the store holds for a template whose options were not changed
DefaultOptionsOf(templateId) == [defaultsOf |-> templateId]

\* the store's initial view, template, options and section
ViewIdle ==
    /\ stView = "optimized"
    /\ stTemplate = "modern"
    /\ stOptions = DefaultOptionsOf("modern")
    /\ stSection = "contactInfo"

EditIdle ==
    /\ edHeap = <<>>
    /\ edDoc = 0
    /\ edPrev = 0
    /\ edPrevValue = Null
    /\ edLast = Null
    /\ edCount = 0

PdfIdle ==
    /\ pdContent = <<>>
    /\ pdFilename = <<>>
    /\ pdLoading = FALSE
    /\ pdPc = "idle"
    /\ pdOutcomes = <<>>
    /\ pdRuns = 0

-----------------------------------------------------------------------------
(* Characters *)

LowerLetters ==
    <<"a", "b", "c", "d", "e", "f", "g", "h", "i", "j", "k", "l", "m",
      "n", "o", "p", "q", "r", "s", "t", "u", "v", "w", "x", "y", "z">>
UpperLetters ==
    <<"A", "B", "C", "D", "E", "F", "G", "H", "I", "J", "K", "L", "M",
      "N", "O", "P", "Q", "R", "S", "T", "U", "V", "W", "X", "Y", "Z">>
LowerSet == {LowerLetters[i] : i \in 1..26}
UpperSet == {UpperLetters[i] : i \in 1..26}
DigitSet == {"0", "1", "2", "3", "4", "5", "6", "7", "8", "9"}

NL == "\n"
BulletGlyph == "U2022"
EnDash == "U2013"
EmDash == "U2014"

IsLower(c) == c \in LowerSet
IsUpper(c) == c \in UpperSet
IsLetter(c) == IsLower(c) \/ IsUpper(c)
IsDigit(c) == c \in DigitSet
\* \w of a regular expression
IsWordChar(c) == IsLetter(c) \/ IsDigit(c) \/ c = "_"
\* \s of a regular expression
IsSpace(c) == c \in {" ", "\t", "\n", "\r"}

UpperOf == [c \in LowerSet |-> UpperLetters[CHOOSE i \in 1..26 : LowerLetters[i] = c]]
LowerOf == [c \in UpperSet |-> LowerLetters[CHOOSE i \in 1..26 : UpperLetters[i] = c]]
\* String.prototype.toUpperCase / toLowerCase on one character
ToUpper(c) == IF IsLower(c) THEN UpperOf[c] ELSE c
ToLower(c) == IF IsUpper(c) THEN LowerOf[c] ELSE c

-----------------------------------------------------------------------------
(* Text helpers *)

\* pat occurs in s at index i; ci: letter case is ignored (flag i)
MatchAt(s, pat, ci, i) ==
    /\ i >= 1
    /\ i + Len(pat) - 1 <= Len(s)
    /\ \A k \in 1..Len(pat) :
          IF ci THEN ToLower(s[i + k - 1]) = ToLower(pat[k])
                ELSE s[i + k - 1] = pat[k]

\* String.prototype.includes
Includes(s, pat) == \E i \in 1..(Len(s) + 1) : MatchAt(s, pat, FALSE, i)
IncludesCI(s, pat) == \E i \in 1..(Len(s) + 1) : MatchAt(s, pat, TRUE, i)

StartsWith(s, pat) == MatchAt(s, pat, FALSE, 1)
EndsWith(s, pat) == MatchAt(s, pat, FALSE, Len(s) - Len(pat) + 1)

\* \b between s[i-1] and s[i]
WordBoundary(s, i) ==
    LET before == i > 1 /\ i - 1 <= Len(s) /\ IsWordChar(s[i - 1])
        after == i >= 1 /\ i <= Len(s) /\ IsWordChar(s[i])
    IN before # after

Min(S) == CHOOSE x \in S : \A y \in S : x <= y
Max(S) == CHOOSE x \in S : \A y \in S : x >= y

\* pat matches in s at index i, between word boundaries when wb
MatchHere(s, pat, ci, wb, i) ==
    /\ MatchAt(s, pat, ci, i)
    /\ wb => (WordBoundary(s, i) /\ WordBoundary(s, i + Len(pat)))

RECURSIVE ReplaceAllFrom(_, _, _, _, _, _)
\* the leftmost match from index i on is replaced, and the scan goes on behind it
ReplaceAllFrom(s, pat, rep, ci, wb, i) ==
    LET found == {j \in i..Len(s) : MatchHere(s, pat, ci, wb, j)}
    IN IF found = {} THEN SubSeq(s, i, Len(s))
       ELSE LET j == Min(found)
            IN SubSeq(s, i, j - 1) \o rep
               \o ReplaceAllFrom(s, pat, rep, ci, wb, j + Len(pat))

\* s.replace(/pat/g, rep) for a literal pat; ci: flag i; wb: \bpat\b
ReplaceAll(s, pat, rep, ci, wb) == ReplaceAllFrom(s, pat, rep, ci, wb, 1)

\* F applied to the value of v: v is evaluated once, before F uses it
Apply(F(_), v) == CHOOSE r \in {F(x) : x \in {v}} : TRUE

RECURSIVE ApplyReplacements(_, _, _, _, _)
\* the replacements of a table one after the other, from entry k on
ApplyReplacements(s, table, ci, wb, k) ==
    IF k > Len(table) THEN s
    ELSE Apply(LAMBDA t : ApplyReplacements(t, table, ci, wb, k + 1),
               ReplaceAll(s, table[k].pat, table[k].rep, ci, wb))

RECURSIVE SplitFrom(_, _, _)
SplitFrom(s, sep, start) ==
    LET found == {j \in start..Len(s) : s[j] = sep}
    IN IF found = {} THEN <<SubSeq(s, start, Len(s))>>
       ELSE <<SubSeq(s, start, Min(found) - 1)>> \o SplitFrom(s, sep, Min(found) + 1)

\* s.split(sep) for a one-character separator
Split(s, sep) == SplitFrom(s, sep, 1)

RECURSIVE Join(_, _)
\* parts.join(sep)
Join(parts, sep) ==
    IF Len(parts) = 0 THEN <<>>
    ELSE IF Len(parts) = 1 THEN parts[1]
         ELSE parts[1] \o sep \o Join(Tail(parts), sep)

\* the length of the run of white space of s that starts at index i
SpacesFrom(s, i) ==
    LET other == {j \in i..Len(s) : ~IsSpace(s[j])}
    IN IF other = {} THEN Len(s) - i + 1 ELSE Min(other) - i

\* the length of the run of white space of s that ends at index i
SpacesBefore(s, i) ==
    LET other == {j \in 1..i : ~IsSpace(s[j])}
    IN IF other = {} THEN i ELSE i - Max(other)

\* String.prototype.trimStart, trimEnd, trim
TrimStart(s) == SubSeq(s, SpacesFrom(s, 1) + 1, Len(s))
TrimEnd(s) == SubSeq(s, 1, Len(s) - SpacesBefore(s, Len(s)))
Trim(s) == TrimEnd(TrimStart(s))

RECURSIVE Flatten(_)
Flatten(parts) ==
    IF Len(parts) = 0 THEN <<>> ELSE parts[1] \o Flatten(Tail(parts))

-----------------------------------------------------------------------------
(* Rule-based rewrite of the optimize-resume route *)

DraftReplacements ==
    << [pat |-> <<"r", "e", "s", "p", "o", "n", "s", "i", "b", "l", "e", " ", "f", "o", "r">>,
        rep |-> <<"l", "e", "d">>],
       [pat |-> <<"h", "e", "l", "p", "e", "d", " ", "w", "i", "t", "h">>,
        rep |-> <<"c", "o", "n", "t", "r", "i", "b", "u", "t", "e", "d", " ", "t", "o">>],
       [pat |-> <<"w", "o", "r", "k", "e", "d", " ", "o", "n">>,
        rep |-> <<"d", "e", "v", "e", "l", "o", "p", "e", "d">>],
       [pat |-> <<"i", "n", " ", "c", "h", "a", "r", "g", "e", " ", "o", "f">>,
        rep |-> <<"m", "a", "n", "a", "g", "e", "d">>],
       [pat |-> <<"a", "s", "s", "i", "s", "t", "e", "d", " ", "i", "n">>,
        rep |-> <<"s", "u", "p", "p", "o", "r", "t", "e", "d">>] >>
OptimizedReplacements ==
    << [pat |-> <<"r", "e", "s", "p", "o", "n", "s", "i", "b", "l", "e", " ", "f", "o", "r">>,
        rep |-> <<"l", "e", "d">>],
       [pat |-> <<"h", "e", "l", "p", "e", "d", " ", "w", "i", "t", "h">>,
        rep |-> <<"c", "o", "l", "l", "a", "b", "o", "r", "a", "t", "e", "d", " ", "o", "n">>],
       [pat |-> <<"w", "o", "r", "k", "e", "d", " ", "o", "n">>,
        rep |-> <<"e", "n", "g", "i", "n", "e", "e", "r", "e", "d">>],
       [pat |-> <<"i", "n", " ", "c", "h", "a", "r", "g", "e", " ", "o", "f">>,
        rep |-> <<"d", "i", "r", "e", "c", "t", "e", "d">>],
       [pat |-> <<"a", "s", "s", "i", "s", "t", "e", "d", " ", "i", "n">>,
        rep |-> <<"f", "a", "c", "i", "l", "i", "t", "a", "t", "e", "d">>],
       [pat |-> <<"d", "e", "v", "e", "l", "o", "p", "e", "d">>,
        rep |-> <<"a", "r", "c", "h", "i", "t", "e", "c", "t", "e", "d", " ", "a", "n", "d", " ", "i", "m", "p", "l", "e", "m", "e", "n", "t", "e", "d">>],
       [pat |-> <<"c", "r", "e", "a", "t", "e", "d">>,
        rep |-> <<"d", "e", "s", "i", "g", "n", "e", "d", " ", "a", "n", "d", " ", "d", "e", "l", "i", "v", "e", "r", "e", "d">>],
       [pat |-> <<"m", "a", "n", "a", "g", "e", "d">>,
        rep |-> <<"o", "r", "c", "h", "e", "s", "t", "r", "a", "t", "e", "d">>],
       [pat |-> <<"i", "m", "p", "r", "o", "v", "e", "d">>,
        rep |-> <<"o", "p", "t", "i", "m", "i", "z", "e", "d">>] >>
weak_phrases ==
    << [pat |-> <<"r", "e", "s", "p", "o", "n", "s", "i", "b", "l", "e", " ", "f", "o", "r">>,
        rep |-> <<"m", "a", "n", "a", "g", "e", "d">>],
       [pat |-> <<"d", "u", "t", "i", "e", "s", " ", "i", "n", "c", "l", "u", "d", "e", "d">>,
        rep |-> <<"e", "x", "e", "c", "u", "t", "e", "d">>],
       [pat |-> <<"w", "o", "r", "k", "e", "d", " ", "o", "n">>,
        rep |-> <<"d", "e", "v", "e", "l", "o", "p", "e", "d">>],
       [pat |-> <<"h", "e", "l", "p", "e", "d", " ", "w", "i", "t", "h">>,
        rep |-> <<"c", "o", "n", "t", "r", "i", "b", "u", "t", "e", "d", " ", "t", "o">>],
       [pat |-> <<"a", "s", "s", "i", "s", "t", "e", "d", " ", "w", "i", "t", "h">>,
        rep |-> <<"s", "u", "p", "p", "o", "r", "t", "e", "d">>],
       [pat |-> <<"p", "a", "r", "t", "i", "c", "i", "p", "a", "t", "e", "d", " ", "i", "n">>,
        rep |-> <<"c", "o", "l", "l", "a", "b", "o", "r", "a", "t", "e", "d", " ", "o", "n">>],
       [pat |-> <<"i", "n", "v", "o", "l", "v", "e", "d", " ", "i", "n">>,
        rep |-> <<"d", "r", "o", "v", "e">>],
       [pat |-> <<"w", "a", "s", " ", "t", "a", "s", "k", "e", "d", " ", "w", "i", "t", "h">>,
        rep |-> <<"s", "p", "e", "a", "r", "h", "e", "a", "d", "e", "d">>] >>
commonTechnicalSkills ==
    << <<"J", "a", "v", "a", "S", "c", "r", "i", "p", "t">>,
       <<"T", "y", "p", "e", "S", "c", "r", "i", "p", "t">>,
       <<"R", "e", "a", "c", "t">>,
       <<"N", "o", "d", "e", ".", "j", "s">>,
       <<"P", "y", "t", "h", "o", "n">>,
       <<"S", "Q", "L">>,
       <<"A", "W", "S">>,
       <<"D", "o", "c", "k", "e", "r">>,
       <<"K", "u", "b", "e", "r", "n", "e", "t", "e", "s">>,
       <<"C", "I", "/", "C", "D">>,
       <<"G", "i", "t">>,
       <<"R", "E", "S", "T", " ", "A", "P", "I">>,
       <<"G", "r", "a", "p", "h", "Q", "L">>,
       <<"M", "a", "c", "h", "i", "n", "e", " ", "L", "e", "a", "r", "n", "i", "n", "g">>,
       <<"D", "a", "t", "a", " ", "A", "n", "a", "l", "y", "s", "i", "s">>,
       <<"J", "a", "v", "a">>,
       <<"C", "+", "+">>,
       <<"C", "#">> >>
SKILLS ==
    <<"S", "K", "I", "L", "L", "S">>
SkillsHeading ==
    <<"\n", "\n", "S", "K", "I", "L", "L", "S", "\n">>
CommaSpace ==
    <<",", " ">>

\* the skills of commonTechnicalSkills from index k on that resumeText mentions
RECURSIVE RelevantFrom(_, _)
RelevantFrom(resumeText, k) ==
    IF k > Len(commonTechnicalSkills) THEN <<>>
    ELSE (IF Includes(resumeText, commonTechnicalSkills[k])
          THEN <<commonTechnicalSkills[k]>> ELSE <<>>)
         \o RelevantFrom(resumeText, k + 1)

\* both branches of the forEach push the skill when the resume mentions it
extractRelevantSkills(resumeText, jobDescription) == RelevantFrom(resumeText, 1)

\* the length of the match of the bullet prefix (white space, one of - U2022 *,
\* white space) at the start of line, 0 when there is none
BulletPrefixLen(line) ==
    LET lead == SpacesFrom(line, 1)
    IN IF lead < Len(line) /\ line[lead + 1] \in {"-", BulletGlyph, "*"}
       THEN lead + 1 + SpacesFrom(line, lead + 2)
       ELSE 0

capitalizeLine(line) ==
    IF Trim(line) = <<>> THEN line
    ELSE LET m == BulletPrefixLen(line)
         IN IF m > 0 /\ m < Len(line)
            THEN SubSeq(line, 1, m) \o <<ToUpper(line[m + 1])>>
                 \o SubSeq(line, m + 2, Len(line))
            ELSE IF IsLetter(line[1])
                 THEN <<ToUpper(line[1])>> \o Tail(line)
                 ELSE line

capitalizeSentences(text) ==
    LET lines == Split(text, NL)
    IN Join([i \in 1..Len(lines) |-> capitalizeLine(lines[i])], <<NL>>)

enhanceResumeDraft(resumeText, jobDescription) ==
    capitalizeSentences(ApplyReplacements(resumeText, DraftReplacements, TRUE, FALSE, 1))

enhanceResumeOptimized(resumeText, jobDescription) ==
    LET replaced == ApplyReplacements(resumeText, OptimizedReplacements, TRUE, FALSE, 1)
        relevantSkills == extractRelevantSkills(resumeText, jobDescription)
        withSkills ==
            IF ~Includes(replaced, SKILLS) /\ jobDescription # <<>>
               /\ Len(relevantSkills) > 0
            THEN replaced \o SkillsHeading \o Join(relevantSkills, CommaSpace)
            ELSE replaced
    IN capitalizeSentences(withSkills)

action_verbs ==
    [ achievement |->
        << <<"a", "c", "h", "i", "e", "v", "e", "d">>,
           <<"i", "m", "p", "r", "o", "v", "e", "d">>,
           <<"i", "n", "c", "r", "e", "a", "s", "e", "d">>,
           <<"r", "e", "d", "u", "c", "e", "d">>,
           <<"d", "e", "c", "r", "e", "a", "s", "e", "d">> >>,
      leadership |->
        << <<"l", "e", "d">>,
           <<"m", "a", "n", "a", "g", "e", "d">>,
           <<"d", "i", "r", "e", "c", "t", "e", "d">>,
           <<"s", "u", "p", "e", "r", "v", "i", "s", "e", "d">>,
           <<"o", "v", "e", "r", "s", "a", "w">> >>,
      technical |->
        << <<"d", "e", "v", "e", "l", "o", "p", "e", "d">>,
           <<"i", "m", "p", "l", "e", "m", "e", "n", "t", "e", "d">>,
           <<"d", "e", "s", "i", "g", "n", "e", "d">>,
           <<"e", "n", "g", "i", "n", "e", "e", "r", "e", "d">>,
           <<"p", "r", "o", "g", "r", "a", "m", "m", "e", "d">> >>,
      communication |->
        << <<"c", "o", "m", "m", "u", "n", "i", "c", "a", "t", "e", "d">>,
           <<"p", "r", "e", "s", "e", "n", "t", "e", "d">>,
           <<"w", "r", "o", "t", "e">>,
           <<"a", "u", "t", "h", "o", "r", "e", "d">>,
           <<"n", "e", "g", "o", "t", "i", "a", "t", "e", "d">> >>,
      analysis |->
        << <<"a", "n", "a", "l", "y", "z", "e", "d">>,
           <<"e", "v", "a", "l", "u", "a", "t", "e", "d">>,
           <<"a", "s", "s", "e", "s", "s", "e", "d">>,
           <<"r", "e", "s", "e", "a", "r", "c", "h", "e", "d">>,
           <<"i", "n", "v", "e", "s", "t", "i", "g", "a", "t", "e", "d">> >> ]
RewriteFragments ==
    << <<"U2022", " ">>,
       <<"R", "e", "s", "p", "o", "n", "s", "i", "b", "l", "e", " ", "f", "o", "r", " ", "m", "a", "n", "a", "g", "i", "n", "g", " ", "a", " ", "t", "e", "a", "m", " ", "o", "f", " ", "d", "e", "v", "e", "l", "o", "p", "e", "r", "s">>,
       <<"i", "n", " ", "c", "h", "a", "r", "g", "e", " ", "o">>,
       <<"a", "s", "s", "i", "s", "t", "e", "d", " ", "i", "n">>,
       <<"w", "o", "r", "k", "e", "d", " ", "o", "n", " ", "J", "a", "v", "a">>,
       <<".">> >>
JobDescriptions ==
    { <<>>,
      <<"J", "a", "v", "a", " ", "d", "e", "v", "e", "l", "o", "p", "e", "r">> }

-----------------------------------------------------------------------------
(* Rule-based rewrite of the Python optimizer *)

VerbCategories == {"achievement", "leadership", "technical", "communication", "analysis"}

\* resume_sections.json "bullet_point_patterns": white space, a bullet glyph,
\* white space, at the start of the line
bullet_point_match(line) == BulletPrefixLen(line)

\* resume_sections.json "strong_words": the verbs of action_verbs
strong_words ==
    UNION {{action_verbs[c][i] : i \in 1..Len(action_verbs[c])} : c \in VerbCategories}

\* pattern.search(line) for \bword\b, letter case ignored
SearchWord(line, word) ==
    \E i \in 1..Len(line) :
        /\ MatchAt(line, word, TRUE, i)
        /\ WordBoundary(line, i)
        /\ WordBoundary(line, i + Len(word))

\* str.capitalize on a lower-case word
Capitalize(word) ==
    IF word = <<>> THEN word ELSE <<ToUpper(word[1])>> \o Tail(word)

EndsWithTerminal(line) ==
    Len(line) > 0 /\ line[Len(line)] \in {".", "!", "?"}

\* nlpVerb: spaCy tags some token of the line as a verb; category: the result of
\* _determine_verb_category on the line.  The result is [raised, line].
optimize_experience_line(line, nlpVerb, category) ==
    LET m == bullet_point_match(line)
    IN IF m = 0 THEN [raised |-> FALSE, line |-> line]
       ELSE LET text == Trim(SubSeq(line, m + 1, Len(line)))
                weak == ApplyReplacements(text, weak_phrases, TRUE, TRUE, 1)
                strong ==
                    IF (\A w \in strong_words : ~SearchWord(weak, w)) /\ nlpVerb
                       /\ weak # <<>>                    \* no token in an empty doc
                    THEN Capitalize(action_verbs[category][1]) \o <<" ">> \o weak
                    ELSE weak
            IN IF strong = <<>>
               THEN [raised |-> TRUE, line |-> line]      \* line[0]: IndexError
               ELSE LET cap == <<ToUpper(strong[1])>> \o Tail(strong)
                        ended == IF EndsWithTerminal(cap) THEN cap ELSE cap \o <<".">>
                    IN [raised |-> FALSE, line |-> <<BulletGlyph, " ">> \o ended]

-----------------------------------------------------------------------------
-----------------------------------------------------------------------------
(* Regular-expression helpers *)

\* the character of s at index i, or no character when i is outside s
At(s, i) == IF i >= 1 /\ i <= Len(s) THEN s[i] ELSE ""

\* the last index of the longest run of characters in class P that starts at
\* index i (a greedy P* or P+); i - 1 or less when the run is empty
RunEnd(P(_), s, i) ==
    LET stop == {j \in i..Len(s) : ~P(s[j])}
    IN IF stop = {} THEN Len(s) ELSE Min(stop) - 1

RECURSIVE ReplaceRegexFrom(_, _, _, _)
\* s.replace(/re/g, rep) from index i on. MatchEnd(s, j) is the last index of
\* the match of re that starts at j, or 0; Rep(s, j, e) is the replacement text
\* of the match s[j..e]. The leftmost match is replaced, and the scan goes on
\* behind it
ReplaceRegexFrom(MatchEnd(_, _), Rep(_, _, _), s, i) ==
    LET found == {j \in i..Len(s) : MatchEnd(s, j) >= j}
    IN IF found = {} THEN SubSeq(s, i, Len(s))
       ELSE LET j == Min(found)
                e == MatchEnd(s, j)
            IN SubSeq(s, i, j - 1) \o Rep(s, j, e)
               \o ReplaceRegexFrom(MatchEnd, Rep, s, e + 1)

ReplaceRegex(MatchEnd(_, _), Rep(_, _, _), s) == ReplaceRegexFrom(MatchEnd, Rep, s, 1)

\* s.replace(/re/, rep): only the first match is replaced
ReplaceFirst(MatchEnd(_, _), Rep(_, _, _), s) ==
    LET found == {j \in 1..Len(s) : MatchEnd(s, j) >= j}
    IN IF found = {} THEN s
       ELSE LET j == Min(found)
                e == MatchEnd(s, j)
            IN SubSeq(s, 1, j - 1) \o Rep(s, j, e) \o SubSeq(s, e + 1, Len(s))

RECURSIVE RunSteps(_, _, _, _)
\* the steps lo to hi of a chain of replace calls, each applied to the result of
\* the step before it
RunSteps(Step(_, _), s, lo, hi) ==
    IF lo = hi THEN Step(lo, s)
    ELSE LET mid == (lo + hi) \div 2
         IN Apply(LAMBDA t : RunSteps(Step, t, mid + 1, hi), RunSteps(Step, s, lo, mid))

\* ^ under flag m: index i starts a line
LineStart(s, i) == i = 1 \/ At(s, i - 1) \in {"\n", "\r"}

\* $ under flag m: a line ends behind index i
LineEnd(s, i) == i = Len(s) \/ At(s, i + 1) \in {"\n", "\r"}

-----------------------------------------------------------------------------
(* The other line functions of the Python optimizer *)

\* _optimize_summary_line.  The result is [raised, line].
optimize_summary_line(line) ==
    LET weak == ApplyReplacements(line, weak_phrases, TRUE, TRUE, 1)
    IN IF weak = <<>>
       THEN [raised |-> TRUE, line |-> line]      \* line[0]: IndexError
       ELSE LET cap == <<ToUpper(weak[1])>> \o Tail(weak)
            IN [raised |-> FALSE,
                line |-> IF EndsWithTerminal(cap) THEN cap ELSE cap \o <<".">>]

\* _basic_optimize_line
basic_optimize_line(line) ==
    LET weak == ApplyReplacements(line, weak_phrases, TRUE, TRUE, 1)
        m == bullet_point_match(weak)
        bullet_text == Trim(SubSeq(weak, m + 1, Len(weak)))
        cap == <<ToUpper(bullet_text[1])>> \o Tail(bullet_text)
        ended == IF bullet_text = <<>> THEN bullet_text
                 ELSE IF EndsWithTerminal(cap) THEN cap ELSE cap \o <<".">>
        bullet_char == Trim(SubSeq(weak, 1, m))
    IN [raised |-> FALSE,
        line |-> IF m = 0 THEN weak ELSE bullet_char \o <<" ">> \o ended]

\* the length above which _final_grammar_check takes a bullet for a sentence
SentenceLength == 20

\* the bullet of a line after the first part of the loop of _final_grammar_check
grammarBullet(line) ==
    LET m == bullet_point_match(line)
        bullet_marker == SubSeq(line, 1, m)
        bullet_text == Trim(SubSeq(line, m + 1, Len(line)))
        cap == <<ToUpper(bullet_text[1])>> \o Tail(bullet_text)
    IN IF m = 0 \/ bullet_text = <<>> THEN line
       ELSE IF Len(cap) > SentenceLength /\ ~EndsWithTerminal(cap)
            THEN bullet_marker \o cap \o <<".">>
            ELSE bullet_marker \o cap

\* r'\ba\s+([aeiouAEIOU])'
ArticleEnd(s, j) ==
    LET r == RunEnd(IsSpace, s, j + 1)
    IN IF At(s, j) = "a" /\ WordBoundary(s, j) /\ r >= j + 1
          /\ At(s, r + 1) \in {"a", "e", "i", "o", "u", "A", "E", "I", "O", "U"}
       THEN r + 1 ELSE 0
\* r'an \1'
ToAn(s, j, e) == <<"a", "n", " ", s[e]>>

\* r'\s{2,}'
WhiteRunEnd(s, j) ==
    LET e == RunEnd(IsSpace, s, j) IN IF e >= j + 1 THEN e ELSE 0
ToSpace(s, j, e) == <<" ">>

\* one turn of the loop of _final_grammar_check
grammarLine(line) ==
    ReplaceRegex(WhiteRunEnd, ToSpace, ReplaceRegex(ArticleEnd, ToAn, grammarBullet(line)))

\* _final_grammar_check
final_grammar_check(text) ==
    LET lines == Split(text, NL)
    IN [raised |-> FALSE,
        line |-> Join([i \in 1..Len(lines) |-> grammarLine(lines[i])], <<NL>>)]
(* The rewrite functions applied to a text, and applied again to the result *)

MaxFragments == 2

\* the texts made of at most n fragments
RECURSIVE FragmentTexts(_, _)
FragmentTexts(frags, n) ==
    IF n = 0 THEN {<<>>}
    ELSE LET shorter == FragmentTexts(frags, n - 1)
         IN shorter \cup {t \o frags[i] : t \in shorter, i \in 1..Len(frags)}

NlpAnswers ==
    {[verb |-> FALSE, category |-> "achievement"]}
    \cup {[verb |-> TRUE, category |-> c] : c \in VerbCategories}

NoNlp == [verb |-> FALSE, category |-> "achievement"]

RewriteBy(fn, text, job, nlp) ==
    CASE fn = "draft" -> [raised |-> FALSE, line |-> enhanceResumeDraft(text, job)]
      [] fn = "optimized" -> [raised |-> FALSE, line |-> enhanceResumeOptimized(text, job)]
      [] fn = "experience" -> optimize_experience_line(text, nlp.verb, nlp.category)
      [] fn = "summary" -> optimize_summary_line(text)
      [] fn = "basic" -> basic_optimize_line(text)
      [] fn = "grammar" -> final_grammar_check(text)

RewriteInit ==
    /\ rwInput \in FragmentTexts(RewriteFragments, MaxFragments)
    /\ rwJob = <<>>
    /\ rwNlp = NoNlp
    /\ rwFn = "none"
    /\ rwOnce = [raised |-> FALSE, line |-> <<>>]
    /\ rwTwice = [raised |-> FALSE, line |-> <<>>]
    /\ rwPc = "init"
    /\ ExtractIdle /\ OptimizeIdle /\ RenderIdle /\ EditIdle /\ PdfIdle /\ ViewIdle

ApplyDraft ==
    /\ rwPc = "init"
    /\ rwFn' = "draft"
    /\ rwOnce' = RewriteBy("draft", rwInput, rwJob, rwNlp)
    /\ rwPc' = "once"
    /\ UNCHANGED <<rwInput, rwJob, rwNlp, rwTwice, exVars, opVars, rnVars, edVars, pdVars, tmVars>>

ApplyOptimized ==
    /\ rwPc = "init"
    /\ \E job \in JobDescriptions :
          /\ rwJob' = job
          /\ rwOnce' = RewriteBy("optimized", rwInput, job, rwNlp)
    /\ rwFn' = "optimized"
    /\ rwPc' = "once"
    /\ UNCHANGED <<rwInput, rwNlp, rwTwice, exVars, opVars, rnVars, edVars, pdVars, tmVars>>

ApplyExperienceLine ==
    /\ rwPc = "init"
    /\ \E nlp \in NlpAnswers :
          /\ rwNlp' = nlp
          /\ rwOnce' = RewriteBy("experience", rwInput, rwJob, nlp)
    /\ rwFn' = "experience"
    /\ rwPc' = "once"
    /\ UNCHANGED <<rwInput, rwJob, rwTwice, exVars, opVars, rnVars, edVars, pdVars, tmVars>>

\* a line of the summary section
ApplySummaryLine ==
    /\ rwPc = "init"
    /\ rwFn' = "summary"
    /\ rwOnce' = RewriteBy("summary", rwInput, rwJob, rwNlp)
    /\ rwPc' = "once"
    /\ UNCHANGED <<rwInput, rwJob, rwNlp, rwTwice, exVars, opVars, rnVars, edVars, pdVars, tmVars>>

\* a line of a section that has no function of its own
ApplyBasicLine ==
    /\ rwPc = "init"
    /\ rwFn' = "basic"
    /\ rwOnce' = RewriteBy("basic", rwInput, rwJob, rwNlp)
    /\ rwPc' = "once"
    /\ UNCHANGED <<rwInput, rwJob, rwNlp, rwTwice, exVars, opVars, rnVars, edVars, pdVars, tmVars>>

\* the post-processing of the optimized resume
ApplyGrammarCheck ==
    /\ rwPc = "init"
    /\ rwFn' = "grammar"
    /\ rwOnce' = RewriteBy("grammar", rwInput, rwJob, rwNlp)
    /\ rwPc' = "once"
    /\ UNCHANGED <<rwInput, rwJob, rwNlp, rwTwice, exVars, opVars, rnVars, edVars, pdVars, tmVars>>

\* the same function on its own result
ApplyAgain ==
    /\ rwPc = "once"
    /\ ~rwOnce.raised
    /\ rwTwice' = RewriteBy(rwFn, rwOnce.line, rwJob, rwNlp)
    /\ rwPc' = "twice"
    /\ UNCHANGED <<rwInput, rwJob, rwNlp, rwFn, rwOnce, exVars, opVars, rnVars, edVars, pdVars, tmVars>>

RewriteNext ==
    \/ ApplyDraft
    \/ ApplyOptimized
    \/ ApplyExperienceLine
    \/ ApplySummaryLine
    \/ ApplyBasicLine
    \/ ApplyGrammarCheck
    \/ ApplyAgain

SpecRewrite == RewriteInit /\ [][RewriteNext]_vars


-----------------------------------------------------------------------------
(* Properties of the rewrite functions *)

\* C1: applying the rule-based rewrite to its own result changes nothing:
\* rewrite(rewrite(s)) = rewrite(s) for every text s
RewriteIdempotent ==
    rwPc = "twice" => rwTwice = rwOnce

\* the weak phrases a rewrite function knows
WeakPhrasesOf(fn) ==
    LET table == CASE fn = "draft" -> DraftReplacements
                   [] fn = "optimized" -> OptimizedReplacements
                   [] OTHER -> weak_phrases
    IN {table[k].pat : k \in 1..Len(table)}

\* the text of a bullet line behind its marker
BulletBody(line) == SubSeq(line, BulletPrefixLen(line) + 1, Len(line))

\* the verbs a rewritten bullet may open with: the action verbs and the first
\* words of the replacements
StrongVerbs ==
    strong_words
    \cup {<<"c", "o", "n", "t", "r", "i", "b", "u", "t", "e", "d">>,
          <<"s", "u", "p", "p", "o", "r", "t", "e", "d">>,
          <<"c", "o", "l", "l", "a", "b", "o", "r", "a", "t", "e", "d">>,
          <<"f", "a", "c", "i", "l", "i", "t", "a", "t", "e", "d">>,
          <<"e", "x", "e", "c", "u", "t", "e", "d">>,
          <<"d", "r", "o", "v", "e">>,
          <<"s", "p", "e", "a", "r", "h", "e", "a", "d", "e", "d">>}

BeginsWithWeakPhrase(fn, line) ==
    /\ BulletPrefixLen(line) > 0
    /\ \E p \in WeakPhrasesOf(fn) :
          /\ MatchAt(BulletBody(line), p, TRUE, 1)
          /\ WordBoundary(BulletBody(line), Len(p) + 1)

OpensWithStrongVerb(line) ==
    \E v \in StrongVerbs :
        /\ MatchAt(BulletBody(line), Capitalize(v), FALSE, 1)
        /\ WordBoundary(BulletBody(line), Len(v) + 1)

\* C6: a bullet that begins with a known weak phrase is returned opening with an
\* upper-case strong verb, without the weak phrase in any letter case, and ending
\* with a period
WeakBulletRewritten ==
    (rwPc = "once" /\ BeginsWithWeakPhrase(rwFn, rwInput)) =>
        /\ ~rwOnce.raised
        /\ OpensWithStrongVerb(rwOnce.line)
        /\ \A p \in WeakPhrasesOf(rwFn) :
              MatchAt(BulletBody(rwInput), p, TRUE, 1) => ~IncludesCI(rwOnce.line, p)
        /\ EndsWith(rwOnce.line, <<".">>)

\* a bullet marker with nothing behind it
IsMarkerOnly(line) == BulletPrefixLen(line) > 0 /\ Trim(BulletBody(line)) = <<>>

\* C12: the rule-based rewrite raises for no input string, and the empty string
\* and a bullet that is a bullet marker with no content are returned unchanged
RewriteNeverRaises ==
    rwPc = "once" =>
        /\ ~rwOnce.raised
        /\ (rwInput = <<>> \/ IsMarkerOnly(rwInput)) => rwOnce.line = rwInput

\* the rewrite has put a period behind the bullet
PeriodAppended ==
    /\ rwPc = "once"
    /\ ~rwOnce.raised
    /\ BulletPrefixLen(rwInput) > 0
    /\ EndsWith(rwOnce.line, <<".">>)
    /\ ~EndsWith(Trim(rwInput), <<".">>)

\* C13: the rule-based rewrite puts a period only behind a bullet that is longer
\* than 20 characters and ends in none of . ! ?; a bullet of 20 characters or
\* fewer is returned with no punctuation added, whatever its section
PeriodOnlyOnSentences ==
    PeriodAppended =>
        /\ Len(Trim(BulletBody(rwOnce.line))) - 1 > SentenceLength
        /\ ~EndsWithTerminal(Trim(rwInput))
-----------------------------------------------------------------------------
(* cleanPdfText of the extract-resume-text route *)

CR == "\r"
TAB == "\t"
TriangleBullet == "U2023"
WhiteBullet == "U25E6"
HyphenBullet == "U2043"
BulletOperator == "U2219"

IsBlank(c) == c \in {" ", TAB}
IsNewline(c) == c = NL
NotNewline(c) == c # NL
\* [A-Z\s&]
IsCapsClass(c) == IsUpper(c) \/ IsSpace(c) \/ c = "&"
\* [a-zA-Z\s]
IsLetterOrSpace(c) == IsLetter(c) \/ IsSpace(c)
\* [\-=_]
IsUnderline(c) == c \in {"-", "=", "_"}

\* /CHAR\s*/ for one character
GlyphSpacesEnd(glyph, s, j) == IF At(s, j) = glyph THEN RunEnd(IsSpace, s, j + 1) ELSE 0

BulletSpacesEnd(s, j) == GlyphSpacesEnd(BulletGlyph, s, j)
StarSpacesEnd(s, j) == GlyphSpacesEnd("*", s, j)
ToBulletLine(s, j, e) == <<NL, BulletGlyph, " ">>
ToStarLine(s, j, e) == <<NL, "*", " ">>

\* /[\-–]\s+/
DashSpacesEnd(s, j) ==
    IF At(s, j) \in {"-", EnDash} /\ IsSpace(At(s, j + 1))
    THEN RunEnd(IsSpace, s, j + 1) ELSE 0
ToDashLine(s, j, e) == <<NL, "-", " ">>

\* /o\s+(?=[A-Z][a-z])/
OBulletEnd(s, j) ==
    LET e == RunEnd(IsSpace, s, j + 1)
    IN IF At(s, j) = "o" /\ e >= j + 1 /\ IsUpper(At(s, e + 1)) /\ IsLower(At(s, e + 2))
       THEN e ELSE 0
ToOLine(s, j, e) == <<NL, "o", " ">>

\* /([a-z])- ?([a-z])/
SplitWordEnd(s, j) ==
    IF IsLower(At(s, j)) /\ At(s, j + 1) = "-"
    THEN IF At(s, j + 2) = " " /\ IsLower(At(s, j + 3)) THEN j + 3
         ELSE IF IsLower(At(s, j + 2)) THEN j + 2 ELSE 0
    ELSE 0
\* '$1$2'
JoinedWord(s, j, e) == <<s[j], s[e]>>

\* /[ \t]+/
BlanksEnd(s, j) == IF IsBlank(At(s, j)) THEN RunEnd(IsBlank, s, j) ELSE 0
OneSpace(s, j, e) == <<" ">>

\* /\n{3,}/
NewlinesEnd(s, j) ==
    LET e == RunEnd(IsNewline, s, j) IN IF e >= j + 2 THEN e ELSE 0
TwoNewlines(s, j, e) == <<NL, NL>>

\* /[•‣◦⁃∙]/
OddBulletEnd(s, j) ==
    IF At(s, j) \in {BulletGlyph, TriangleBullet, WhiteBullet, HyphenBullet, BulletOperator}
    THEN j ELSE 0
OneBullet(s, j, e) == <<BulletGlyph>>

\* /[–—]/
OddDashEnd(s, j) == IF At(s, j) \in {EnDash, EmDash} THEN j ELSE 0
OneHyphen(s, j, e) == <<"-">>

\* (?:[A-Z][A-Z\s&]+){3,} can match s[p..e]: three or more pieces, each an
\* upper-case letter and at least one more character of the class, all inside
\* one run of the class
CapsChunks(s, p, e) ==
    /\ IsUpper(At(s, p))
    /\ \E q2 \in (p + 2)..e : \E q3 \in (q2 + 2)..(e - 1) :
          IsUpper(s[q2]) /\ IsUpper(s[q3])

\* /([^\n])((?:[A-Z][A-Z\s&]+){3,})/ : the greedy pieces take the whole run
CapsAfterCharEnd(s, j) ==
    LET e == RunEnd(IsCapsClass, s, j + 1)
    IN IF At(s, j) # "" /\ At(s, j) # NL /\ e <= Len(s) /\ CapsChunks(s, j + 1, e)
       THEN e ELSE 0
\* '$1\n\n$2'
BreakBeforeCaps(s, j, e) == <<s[j], NL, NL>> \o SubSeq(s, j + 1, e)

\* /((?:[A-Z][A-Z\s&]+){3,})([^\n])/ : the pieces give characters back until
\* a character other than the newline follows them
CapsBeforeCharEnd(s, j) ==
    LET r == RunEnd(IsCapsClass, s, j)
        ends == {e \in j..r : At(s, e + 1) # "" /\ At(s, e + 1) # NL /\ CapsChunks(s, j, e)}
    IN IF IsUpper(At(s, j)) /\ ends # {} THEN Max(ends) + 1 ELSE 0
\* '$1\n$2'
BreakAfterCaps(s, j, e) == SubSeq(s, j, e - 1) \o <<NL, s[e]>>

\* the end of \s*(?:\n|\:|$) behind index u, or 0: all the white space and
\* then a colon or the end of the text, else the white space up to its last
\* newline
HeaderTerminator(s, u) ==
    LET w == RunEnd(IsSpace, s, u + 1)
        nls == {k \in (u + 1)..w : s[k] = NL}
    IN IF w = Len(s) THEN w
       ELSE IF At(s, w + 1) = ":" THEN w + 1
       ELSE IF nls # {} THEN Max(nls) ELSE 0

\* the last index of group 1 of /\n\s*([A-Z][A-Z\s&]+[A-Z])\s*(?:\n|\:|$)/ for
\* a match that starts at j, or 0
CapsHeaderLast(s, j) ==
    LET p == RunEnd(IsSpace, s, j + 1) + 1
        r == RunEnd(IsCapsClass, s, p)
        lasts == {u \in (p + 2)..r : IsUpper(s[u]) /\ HeaderTerminator(s, u) >= u}
    IN IF At(s, j) = NL /\ IsUpper(At(s, p)) /\ lasts # {} THEN Max(lasts) ELSE 0
CapsHeaderEnd(s, j) ==
    IF CapsHeaderLast(s, j) = 0 THEN 0 ELSE HeaderTerminator(s, CapsHeaderLast(s, j))
\* '\n\n$1\n'
CapsHeaderLine(s, j, e) ==
    <<NL, NL>> \o SubSeq(s, RunEnd(IsSpace, s, j + 1) + 1, CapsHeaderLast(s, j)) \o <<NL>>

RECURSIVE TitleWordsLast(_, _, _)
\* [A-Z][a-z]+(?:\s+[A-Z][a-z]+)* from index p on, n words before p: the last
\* index of the last word that has a newline and an underline behind it, or 0
TitleWordsLast(s, p, n) ==
    LET l == RunEnd(IsLower, s, p + 1)
        w == RunEnd(IsSpace, s, l + 1)
        u == RunEnd(IsUnderline, s, l + 2)
        more == IF w >= l + 1 THEN TitleWordsLast(s, w + 1, n + 1) ELSE 0
    IN IF ~(IsUpper(At(s, p)) /\ l >= p + 1) THEN 0
       ELSE IF more # 0 THEN more
       ELSE IF n >= 1 /\ At(s, l + 1) = NL /\ u >= l + 4 /\ At(s, u + 1) = NL THEN l
       ELSE 0

\* /\n([A-Z][a-z]+(?:\s+[A-Z][a-z]+){1,})\n[\-=_]{3,}\n/
UnderlinedHeaderEnd(s, j) ==
    LET l == TitleWordsLast(s, j + 1, 0)
    IN IF At(s, j) = NL /\ l # 0 THEN RunEnd(IsUnderline, s, l + 2) + 1 ELSE 0
UnderlinedHeaderLine(s, j, e) ==
    <<NL, NL>> \o SubSeq(s, j + 1, TitleWordsLast(s, j + 1, 0)) \o <<NL>>

\* /\n\s*([A-Z][a-zA-Z\s]+):[^\n]*\n/ : the last index of group 1
ColonHeaderLast(s, j) ==
    LET p == RunEnd(IsSpace, s, j + 1) + 1
        r == RunEnd(IsLetterOrSpace, s, p + 1)
        l == RunEnd(NotNewline, s, r + 2)
    IN IF At(s, j) = NL /\ IsUpper(At(s, p)) /\ r >= p + 1 /\ At(s, r + 1) = ":"
          /\ At(s, l + 1) = NL
       THEN r ELSE 0
ColonHeaderEnd(s, j) ==
    IF ColonHeaderLast(s, j) = 0 THEN 0
    ELSE RunEnd(NotNewline, s, ColonHeaderLast(s, j) + 2) + 1
ColonHeaderLine(s, j, e) ==
    <<NL, NL>> \o SubSeq(s, RunEnd(IsSpace, s, j + 1) + 1, ColonHeaderLast(s, j)) \o <<NL>>

\* /\n\s*(\d+\.?\s+[A-Z][a-zA-Z\s]+)(?:\n|\:)/ : the last index of group 1
NumberedHeaderLast(s, j) ==
    LET p == RunEnd(IsSpace, s, j + 1) + 1
        d == RunEnd(IsDigit, s, p)
        dot == IF At(s, d + 1) = "." THEN d + 1 ELSE d
        w == RunEnd(IsSpace, s, dot + 1)
        q == w + 1
        r == RunEnd(IsLetterOrSpace, s, q + 1)
        nls == {k \in (q + 1)..(r - 1) : s[k + 1] = NL}
    IN IF ~(At(s, j) = NL /\ d >= p /\ w >= dot + 1 /\ IsUpper(At(s, q)) /\ r >= q + 1)
       THEN 0
       ELSE IF At(s, r + 1) = ":" THEN r
       ELSE IF nls # {} THEN Max(nls) ELSE 0
NumberedHeaderEnd(s, j) ==
    IF NumberedHeaderLast(s, j) = 0 THEN 0 ELSE NumberedHeaderLast(s, j) + 1
NumberedHeaderLine(s, j, e) ==
    <<NL, NL>> \o SubSeq(s, RunEnd(IsSpace, s, j + 1) + 1, NumberedHeaderLast(s, j)) \o <<NL>>

\* /([^\n])([•\*\-])/
BulletInLineEnd(s, j) ==
    IF At(s, j) # "" /\ At(s, j) # NL /\ At(s, j + 1) \in {BulletGlyph, "*", "-"}
    THEN j + 1 ELSE 0
\* '$1\n$2'
BulletOnOwnLine(s, j, e) == <<s[j], NL, s[e]>>

\* /\n\s*([A-Za-z])/
LineLetterEnd(s, j) ==
    LET e == RunEnd(IsSpace, s, j + 1) + 1
    IN IF At(s, j) = NL /\ IsLetter(At(s, e)) THEN e ELSE 0
\* a line that starts with a lower-case letter stays; one that starts with an
\* upper-case letter gets a bullet, and the white space before it goes
LineLetterBullet(s, j, e) ==
    IF IsLower(s[e]) THEN SubSeq(s, j, e) ELSE <<NL, BulletGlyph, " ", s[e]>>

\* the replace calls of cleanPdfText, in their order
cleanPdfStep(k, s) ==
    CASE k = 1 -> ReplaceAll(s, <<CR, NL>>, <<NL>>, FALSE, FALSE)
      [] k = 2 -> ReplaceRegex(BulletSpacesEnd, ToBulletLine, s)
      [] k = 3 -> ReplaceRegex(StarSpacesEnd, ToStarLine, s)
      [] k = 4 -> ReplaceRegex(DashSpacesEnd, ToDashLine, s)
      [] k = 5 -> ReplaceRegex(OBulletEnd, ToOLine, s)
      [] k = 6 -> ReplaceRegex(SplitWordEnd, JoinedWord, s)
      [] k = 7 -> ReplaceRegex(BlanksEnd, OneSpace, s)
      [] k = 8 -> ReplaceRegex(NewlinesEnd, TwoNewlines, s)
      [] k = 9 -> ReplaceRegex(OddBulletEnd, OneBullet, s)
      [] k = 10 -> ReplaceRegex(OddDashEnd, OneHyphen, s)
      [] k = 11 -> ReplaceRegex(CapsAfterCharEnd, BreakBeforeCaps, s)
      [] k = 12 -> ReplaceRegex(CapsBeforeCharEnd, BreakAfterCaps, s)
      [] k = 13 -> ReplaceRegex(CapsHeaderEnd, CapsHeaderLine, s)
      [] k = 14 -> ReplaceRegex(UnderlinedHeaderEnd, UnderlinedHeaderLine, s)
      [] k = 15 -> ReplaceRegex(ColonHeaderEnd, ColonHeaderLine, s)
      [] k = 16 -> ReplaceRegex(NumberedHeaderEnd, NumberedHeaderLine, s)
      [] k = 17 -> ReplaceRegex(BulletInLineEnd, BulletOnOwnLine, s)
      [] k = 18 -> ReplaceRegex(LineLetterEnd, LineLetterBullet, s)
      [] k = 19 -> Trim(s)

cleanPdfText(text) == RunSteps(cleanPdfStep, text, 1, 19)
-----------------------------------------------------------------------------
(* structureResumeText of the extract-resume-text route *)

DotOperator == "U22C5"
ZNotationSpot == "U2981"
BlackCircle == "U25CF"

HeaderOpen == <<"<", "H", "E", "A", "D", "E", "R", ">">>
HeaderClose == <<"<", "/", "H", "E", "A", "D", "E", "R", ">">>
ContactOpen == <<"<", "C", "O", "N", "T", "A", "C", "T", "_", "I", "N", "F", "O", ">">>
ContactClose == <<"<", "/", "C", "O", "N", "T", "A", "C", "T", "_", "I", "N", "F", "O", ">">>
SectionOpen == <<"<", "S", "E", "C", "T", "I", "O", "N", ">">>
SectionClose == <<"<", "/", "S", "E", "C", "T", "I", "O", "N", ">">>
BulletTag == <<"<", "B", "U", "L", "L", "E", "T", ">">>
DateOpen == <<"<", "D", "A", "T", "E", ">">>
DateClose == <<"<", "/", "D", "A", "T", "E", ">">>
\* '$1' in a replacement text of a pattern that has no group 1 stays as it is
DollarOne == <<"$", "1">>
LinkedInPrefix == <<"l", "i", "n", "k", "e", "d", "i", "n", ".", "c", "o", "m", "/", "i", "n", "/">>
GitHubPrefix == <<"g", "i", "t", "h", "u", "b", ".", "c", "o", "m", "/">>

sectionHeaders ==
    << <<"E", "D", "U", "C", "A", "T", "I", "O", "N">>,
       <<"E", "X", "P", "E", "R", "I", "E", "N", "C", "E">>,
       <<"W", "O", "R", "K", " ", "E", "X", "P", "E", "R", "I", "E", "N", "C", "E">>,
       <<"E", "M", "P", "L", "O", "Y", "M", "E", "N", "T">>,
       <<"P", "R", "O", "F", "E", "S", "S", "I", "O", "N", "A", "L", " ", "E", "X", "P", "E", "R", "I", "E", "N", "C", "E">>,
       <<"P", "R", "O", "F", "E", "S", "S", "I", "O", "N", "A", "L", " ", "S", "U", "M", "M", "A", "R", "Y">>,
       <<"C", "A", "R", "E", "E", "R", " ", "E", "X", "P", "E", "R", "I", "E", "N", "C", "E">>,
       <<"S", "K", "I", "L", "L", "S">>,
       <<"T", "E", "C", "H", "N", "I", "C", "A", "L", " ", "S", "K", "I", "L", "L", "S">>,
       <<"P", "R", "O", "F", "I", "C", "I", "E", "N", "C", "I", "E", "S">>,
       <<"E", "X", "P", "E", "R", "T", "I", "S", "E">>,
       <<"P", "R", "O", "J", "E", "C", "T", "S">>,
       <<"C", "E", "R", "T", "I", "F", "I", "C", "A", "T", "I", "O", "N", "S">>,
       <<"A", "C", "H", "I", "E", "V", "E", "M", "E", "N", "T", "S">>,
       <<"A", "W", "A", "R", "D", "S">>,
       <<"S", "U", "M", "M", "A", "R", "Y">>,
       <<"P", "R", "O", "F", "I", "L", "E">>,
       <<"O", "B", "J", "E", "C", "T", "I", "V", "E">>,
       <<"C", "A", "R", "E", "E", "R", " ", "O", "B", "J", "E", "C", "T", "I", "V", "E">>,
       <<"P", "R", "O", "F", "E", "S", "S", "I", "O", "N", "A", "L", " ", "P", "R", "O", "F", "I", "L", "E">>,
       <<"P", "U", "B", "L", "I", "C", "A", "T", "I", "O", "N", "S">>,
       <<"L", "A", "N", "G", "U", "A", "G", "E", "S">>,
       <<"I", "N", "T", "E", "R", "E", "S", "T", "S">>,
       <<"A", "C", "T", "I", "V", "I", "T", "I", "E", "S">>,
       <<"V", "O", "L", "U", "N", "T", "E", "E", "R">>,
       <<"R", "E", "F", "E", "R", "E", "N", "C", "E", "S">>,
       <<"P", "R", "O", "F", "E", "S", "S", "I", "O", "N", "A", "L", " ", "D", "E", "V", "E", "L", "O", "P", "M", "E", "N", "T">> >>

MonthNames ==
    { <<"J", "a", "n">>,
       <<"F", "e", "b">>,
       <<"M", "a", "r">>,
       <<"A", "p", "r">>,
       <<"M", "a", "y">>,
       <<"J", "u", "n">>,
       <<"J", "u", "l">>,
       <<"A", "u", "g">>,
       <<"S", "e", "p">>,
       <<"O", "c", "t">>,
       <<"N", "o", "v">>,
       <<"D", "e", "c">> }

\* (?:Present|Current|Now)
PresentWords ==
    << <<"P", "r", "e", "s", "e", "n", "t">>,
       <<"C", "u", "r", "r", "e", "n", "t">>,
       <<"N", "o", "w">> >>

\* the n characters of s from index i on are digits (\d{n})
Digits(s, i, n) == \A k \in i..(i + n - 1) : IsDigit(At(s, k))
AllIn(P(_), s, i, e) == \A k \in i..e : P(At(s, k))

\* [A-Za-z0-9._%+-]
IsEmailLocal(c) == IsLetter(c) \/ IsDigit(c) \/ c \in {".", "_", "%", "+", "-"}
\* [A-Za-z0-9.-]
IsEmailDomain(c) == IsLetter(c) \/ IsDigit(c) \/ c \in {".", "-"}
\* [-.\s]
IsPhoneSep(c) == c \in {"-", "."} \/ IsSpace(c)
\* [\w-]
IsSlugChar(c) == IsWordChar(c) \/ c = "-"

\* /\b[A-Za-z0-9._%+-]+@[A-Za-z0-9.-]+\.[A-Za-z]{2,}\b/.test(line)
EmailTest(line) ==
    \E a \in 1..Len(line) :
        /\ line[a] = "@"
        /\ \E j \in 1..(a - 1) : WordBoundary(line, j) /\ AllIn(IsEmailLocal, line, j, a - 1)
        /\ \E d \in (a + 2)..Len(line) :
              /\ line[d] = "."
              /\ AllIn(IsEmailDomain, line, a + 1, d - 1)
              /\ \E e \in (d + 2)..Len(line) :
                    AllIn(IsLetter, line, d + 1, e) /\ WordBoundary(line, e + 1)

\* the indices behind an optional [-.\s] at index i
AfterOptionalSep(s, i) == {i} \cup (IF IsPhoneSep(At(s, i)) THEN {i + 1} ELSE {})

\* the indices behind (?:\+?1[-.\s]?)? at index j
AfterCountryCode(s, j) ==
    {j} \cup (IF At(s, j) = "1" THEN AfterOptionalSep(s, j + 1) ELSE {})
        \cup (IF At(s, j) = "+" /\ At(s, j + 1) = "1" THEN AfterOptionalSep(s, j + 2) ELSE {})

\* the indices behind (?:\(\d{3}\)|\d{3}) at index i
AfterAreaCode(s, i) ==
    (IF At(s, i) = "(" /\ Digits(s, i + 1, 3) /\ At(s, i + 4) = ")" THEN {i + 5} ELSE {})
        \cup (IF Digits(s, i, 3) THEN {i + 3} ELSE {})

\* /\b(?:\+?1[-.\s]?)?(?:\(\d{3}\)|\d{3})[-.\s]?\d{3}[-.\s]?\d{4}\b/.test(line)
PhoneTest(line) ==
    \E j \in 1..Len(line) :
        /\ WordBoundary(line, j)
        /\ \E a \in AfterCountryCode(line, j) : \E b \in AfterAreaCode(line, a) :
           \E c \in AfterOptionalSep(line, b) :
              /\ Digits(line, c, 3)
              /\ \E d \in AfterOptionalSep(line, c + 3) :
                    Digits(line, d, 4) /\ WordBoundary(line, d + 4)

\* /linkedin\.com\/in\/[\w-]+/.test(line) and /github\.com\/[\w-]+/.test(line)
ProfileTest(prefix, line) ==
    \E j \in 1..Len(line) :
        MatchAt(line, prefix, FALSE, j) /\ IsSlugChar(At(line, j + Len(prefix)))

\* /\b(?:[A-Za-z]+,\s*[A-Za-z]+|[A-Za-z]+\s+[A-Za-z]+,\s*[A-Za-z]{2})\b/.test(line):
\* a word, a comma, white space and a word that ends at a word boundary; what
\* the second alternative matches ends in a match of the first
CityStateTest(line) ==
    \E c \in 2..Len(line) :
        /\ line[c] = ","
        /\ \E j \in 1..(c - 1) : WordBoundary(line, j) /\ AllIn(IsLetter, line, j, c - 1)
        /\ LET p == RunEnd(IsSpace, line, c + 1) + 1
               e == RunEnd(IsLetter, line, p)
           IN e >= p /\ WordBoundary(line, e + 1)

\* one of contactPatterns matches the line
IsContactLine(line) ==
    \/ EmailTest(line)
    \/ PhoneTest(line)
    \/ ProfileTest(LinkedInPrefix, line)
    \/ ProfileTest(GitHubPrefix, line)
    \/ CityStateTest(line)

ContactLineLimit == 6

RECURSIVE contactSectionFrom(_, _)
\* the lines 1 to 5 (counted from 0) that match a contact pattern, each with a
\* newline behind it
contactSectionFrom(lines, i) ==
    IF i > Min({Len(lines), ContactLineLimit}) THEN <<>>
    ELSE (IF IsContactLine(lines[i]) THEN lines[i] \o <<NL>> ELSE <<>>)
         \o contactSectionFrom(lines, i + 1)

\* structured.replace(pat, rep) for a string pat: the first occurrence
ReplaceFirstText(s, pat, rep) ==
    LET found == {j \in 1..(Len(s) + 1) : MatchAt(s, pat, FALSE, j)}
    IN IF found = {} THEN s
       ELSE SubSeq(s, 1, Min(found) - 1) \o rep \o SubSeq(s, Min(found) + Len(pat), Len(s))

\* `\n\n<SECTION>${header.toUpperCase()}</SECTION>\n`
SectionTag(header) == <<NL, NL>> \o SectionOpen \o header \o SectionClose \o <<NL>>

\* new RegExp(`\\b${header}\\b`, 'i')
HeaderWordEnd(header, s, j) ==
    IF MatchHere(s, header, TRUE, TRUE, j) THEN j + Len(header) - 1 ELSE 0

\* new RegExp(`\\b${header}:`, 'i')
HeaderColonEnd(header, s, j) ==
    IF MatchAt(s, header \o <<":">>, TRUE, j) /\ WordBoundary(s, j)
    THEN j + Len(header) ELSE 0

\* new RegExp(`\\n\\s*${header}\\s*\\n`, 'i')
HeaderLineEnd(header, s, j) ==
    LET p == RunEnd(IsSpace, s, j + 1) + 1
        u == p + Len(header) - 1
        w == RunEnd(IsSpace, s, u + 1)
        nls == {k \in (u + 1)..w : s[k] = NL}
    IN IF At(s, j) = NL /\ MatchAt(s, header, TRUE, p) /\ nls # {} THEN Max(nls) ELSE 0

\* the three patterns of the headers, each replacing its first match: step k
\* is pattern (k - 1) % 3 of header (k - 1) \div 3, both counted from 0
TagSectionStep(k, s) ==
    LET header == sectionHeaders[((k - 1) \div 3) + 1]
    IN CASE (k - 1) % 3 = 0 ->
              ReplaceFirst(LAMBDA x, j : HeaderWordEnd(header, x, j),
                           LAMBDA x, j, e : SectionTag(header), s)
         [] (k - 1) % 3 = 1 ->
              ReplaceFirst(LAMBDA x, j : HeaderColonEnd(header, x, j),
                           LAMBDA x, j, e : SectionTag(header), s)
         [] (k - 1) % 3 = 2 ->
              ReplaceFirst(LAMBDA x, j : HeaderLineEnd(header, x, j),
                           LAMBDA x, j, e : SectionTag(header), s)

\* sectionHeaders.forEach
TagSections(s) == RunSteps(TagSectionStep, s, 1, 3 * Len(sectionHeaders))

\* /^\s*[-•⋅∙⁃⦁●]|^\s*[*o]\s+/gm
BulletMarkEnd(s, j) ==
    LET m == RunEnd(IsSpace, s, j) + 1
        w == RunEnd(IsSpace, s, m + 1)
    IN IF ~LineStart(s, j) THEN 0
       ELSE IF At(s, m) \in {"-", BulletGlyph, DotOperator, BulletOperator,
                             HyphenBullet, ZNotationSpot, BlackCircle}
            THEN m
       ELSE IF At(s, m) \in {"*", "o"} /\ w >= m + 1 THEN w ELSE 0
\* '<BULLET> '
BulletMarker(s, j, e) == BulletTag \o <<" ">>

\* /^\s*[-–—]\s+/gm
DashMarkEnd(s, j) ==
    LET m == RunEnd(IsSpace, s, j) + 1
        w == RunEnd(IsSpace, s, m + 1)
    IN IF LineStart(s, j) /\ At(s, m) \in {"-", EnDash, EmDash} /\ w >= m + 1
       THEN w ELSE 0

\* \d{1,2}\/\d{4} at index j: its last index, or 0
MonthSlashYearEnd(s, j) ==
    IF Digits(s, j, 2) /\ At(s, j + 2) = "/" /\ Digits(s, j + 3, 4) THEN j + 6
    ELSE IF Digits(s, j, 1) /\ At(s, j + 1) = "/" /\ Digits(s, j + 2, 4) THEN j + 5
    ELSE 0

\* \s*[-–—]\s* at index i: its last index, or 0
RangeDashEnd(s, i) ==
    LET d == RunEnd(IsSpace, s, i) + 1
    IN IF At(s, d) \in {"-", EnDash, EmDash} THEN RunEnd(IsSpace, s, d + 1) ELSE 0

\* (?:Present|Current|Now) under flag i at index i: its last index, or 0
PresentEnd(s, i) ==
    LET hits == {k \in 1..Len(PresentWords) : MatchAt(s, PresentWords[k], TRUE, i)}
    IN IF hits = {} THEN 0 ELSE i + Len(PresentWords[Min(hits)]) - 1

\* (?:Jan|...|Dec)[a-z]*\s+\d{4} under flag i at index j: its last index, or 0
MonthNameYearEnd(s, j) ==
    LET l == RunEnd(IsLetter, s, j + 3)
        w == RunEnd(IsSpace, s, l + 1)
    IN IF (\E m \in MonthNames : MatchAt(s, m, TRUE, j)) /\ w >= l + 1 /\ Digits(s, w + 1, 4)
       THEN w + 4 ELSE 0

\* \d{4} at index j: its last index, or 0
YearEnd(s, j) == IF Digits(s, j, 4) THEN j + 3 ELSE 0

\* FROM \s*[-–—]\s* TO, else FROM \s*[-–—]\s* (?:Present|Current|Now), where a
\* is the last index of FROM and To(s, i) the last index of TO at index i
RangeEnd(To(_, _), s, a) ==
    LET g == IF a = 0 THEN 0 ELSE RangeDashEnd(s, a + 1)
    IN IF g = 0 THEN 0
       ELSE IF To(s, g + 1) # 0 THEN To(s, g + 1) ELSE PresentEnd(s, g + 1)

\* datePatterns[0]: MM/YYYY - MM/YYYY or MM/YYYY - Present
SlashDateEnd(s, j) ==
    IF WordBoundary(s, j) THEN RangeEnd(MonthSlashYearEnd, s, MonthSlashYearEnd(s, j)) ELSE 0

\* datePatterns[1]: Month YYYY - Month YYYY
MonthDateEnd(s, j) ==
    LET g == IF MonthNameYearEnd(s, j) = 0 THEN 0
             ELSE RangeDashEnd(s, MonthNameYearEnd(s, j) + 1)
    IN IF g = 0 THEN 0 ELSE MonthNameYearEnd(s, g + 1)

\* datePatterns[2]: Month YYYY - Present
MonthPresentEnd(s, j) ==
    LET g == IF MonthNameYearEnd(s, j) = 0 THEN 0
             ELSE RangeDashEnd(s, MonthNameYearEnd(s, j) + 1)
    IN IF g = 0 THEN 0 ELSE PresentEnd(s, g + 1)

\* datePatterns[3]: YYYY - YYYY or YYYY - Present
YearDateEnd(s, j) ==
    IF WordBoundary(s, j) THEN RangeEnd(YearEnd, s, YearEnd(s, j)) ELSE 0

\* '\n<DATE>$1</DATE>' where the pattern has group 1: the matched date
DateTagCaptured(s, j, e) == <<NL>> \o DateOpen \o SubSeq(s, j, e) \o DateClose
\* '\n<DATE>$1</DATE>' where the pattern has no group
DateTagLiteral(s, j, e) == <<NL>> \o DateOpen \o DollarOne \o DateClose

\* /([.;:])\s*<BULLET>/
PunctBulletEnd(s, j) ==
    LET b == RunEnd(IsSpace, s, j + 1) + 1
    IN IF At(s, j) \in {".", ";", ":"} /\ MatchAt(s, BulletTag, FALSE, b)
       THEN b + Len(BulletTag) - 1 ELSE 0
\* '$1\n<BULLET>'
PunctThenBullet(s, j, e) == <<s[j], NL>> \o BulletTag

\* the first line as the name, when the text has more than two lines
TagName(text) ==
    LET lines == Split(text, NL)
    IN IF Len(lines) > 2
       THEN HeaderOpen \o lines[1] \o HeaderClose \o <<NL>> \o Join(Tail(lines), <<NL>>)
       ELSE text

\* the contact lines of text, found in structured and wrapped there
TagContact(text, structured) ==
    LET contactSection == contactSectionFrom(Split(text, NL), 2)
    IN IF contactSection # <<>>
       THEN ReplaceFirstText(structured, contactSection,
                             ContactOpen \o contactSection \o ContactClose)
       ELSE structured

\* the steps of structureResumeText behind the contact lines, in their order
structureStep(k, s) ==
    CASE k = 1 -> TagSections(s)
      [] k = 2 -> ReplaceRegex(BulletMarkEnd, BulletMarker, s)
      [] k = 3 -> ReplaceRegex(DashMarkEnd, BulletMarker, s)
      [] k = 4 -> ReplaceRegex(SlashDateEnd, DateTagCaptured, s)
      [] k = 5 -> ReplaceRegex(MonthDateEnd, DateTagLiteral, s)
      [] k = 6 -> ReplaceRegex(MonthPresentEnd, DateTagLiteral, s)
      [] k = 7 -> ReplaceRegex(YearDateEnd, DateTagLiteral, s)
      [] k = 8 -> ReplaceRegex(PunctBulletEnd, PunctThenBullet, s)
      [] k = 9 -> ReplaceRegex(NewlinesEnd, TwoNewlines, s)
      [] k = 10 -> Trim(s)

structureResumeText(text) ==
    Apply(LAMBDA named : RunSteps(structureStep, TagContact(text, named), 1, 10),
          TagName(text))
-----------------------------------------------------------------------------
(* Text preparation of the optimize-resume route *)

\* '<BULLET>•'
BulletPlaceholder == <<"<", "B", "U", "L", "L", "E", "T", ">", "U2022">>
\* '<BULLET>• '
BulletLinePlaceholder == <<"<", "B", "U", "L", "L", "E", "T", ">", "U2022", " ">>
SubheaderOpen == <<"<", "S", "U", "B", "H", "E", "A", "D", "E", "R", ">">>
SubheaderClose == <<"<", "/", "S", "U", "B", "H", "E", "A", "D", "E", "R", ">">>
IndentOpen == <<"<", "I", "N", "D", "E", "N", "T", " ", "l", "e", "v", "e", "l", "=", "\"">>
IndentOpenEnd == <<"\"", ">">>
IndentClose == <<"<", "/", "I", "N", "D", "E", "N", "T", ">">>
DigitChars == <<"0", "1", "2", "3", "4", "5", "6", "7", "8", "9">>

\* a number as template text: its decimal digits
RECURSIVE ToDecimal(_)
ToDecimal(n) ==
    IF n < 10 THEN <<DigitChars[n + 1]>>
    ELSE ToDecimal(n \div 10) \o <<DigitChars[(n % 10) + 1]>>

\* \n and \r end a line: . does not match them
NotLineTerminator(c) == c \notin {NL, CR}
\* [A-Z\s]
IsUpperOrSpace(c) == IsUpper(c) \/ IsSpace(c)
\* [\w\s]
IsWordOrSpace(c) == IsWordChar(c) \/ IsSpace(c)
IsSpaceChar(c) == c = " "

\* /•/g
BulletEnd(s, j) == IF At(s, j) = BulletGlyph THEN j ELSE 0
MarkBullet(s, j, e) == BulletPlaceholder

\* /^\s*[-–—]\s*/gm
LineDashEnd(s, j) ==
    LET m == RunEnd(IsSpace, s, j) + 1
    IN IF LineStart(s, j) /\ At(s, m) \in {"-", EnDash, EmDash}
       THEN RunEnd(IsSpace, s, m + 1) ELSE 0
\* /^\s*[*]\s*/gm
LineStarEnd(s, j) ==
    LET m == RunEnd(IsSpace, s, j) + 1
    IN IF LineStart(s, j) /\ At(s, m) = "*" THEN RunEnd(IsSpace, s, m + 1) ELSE 0
MarkBulletLine(s, j, e) == BulletLinePlaceholder

\* /^([A-Z][A-Z\s]+)$/gm : the run gives characters back until a line ends
CapsLineEnd(s, j) ==
    LET r == RunEnd(IsUpperOrSpace, s, j + 1)
        ends == {e \in (j + 1)..r : LineEnd(s, e)}
    IN IF LineStart(s, j) /\ IsUpper(At(s, j)) /\ ends # {} THEN Max(ends) ELSE 0
\* '<HEADER>$1</HEADER>'
MarkHeader(s, j, e) == HeaderOpen \o SubSeq(s, j, e) \o HeaderClose

\* /^([A-Za-z][\w\s]+):$/gm
ColonLineEnd(s, j) ==
    LET r == RunEnd(IsWordOrSpace, s, j + 1)
    IN IF LineStart(s, j) /\ IsLetter(At(s, j)) /\ r >= j + 1 /\ At(s, r + 1) = ":"
          /\ LineEnd(s, r + 1)
       THEN r + 1 ELSE 0
\* '<SUBHEADER>$1:</SUBHEADER>'
MarkSubheader(s, j, e) == SubheaderOpen \o SubSeq(s, j, e) \o SubheaderClose

\* group 1 of indentPattern /^(\s+)(.+)$/gm for a match at j: its last index,
\* or 0. The white space gives characters back until one that is no line
\* terminator follows it
IndentLast(s, j) ==
    LET w == RunEnd(IsSpace, s, j)
        lasts == {k \in j..w : At(s, k + 1) # "" /\ NotLineTerminator(At(s, k + 1))}
    IN IF LineStart(s, j) /\ lasts # {} THEN Max(lasts) ELSE 0
IndentLineEnd(s, j) ==
    IF IndentLast(s, j) = 0 THEN 0 ELSE RunEnd(NotLineTerminator, s, IndentLast(s, j) + 1)
\* `<INDENT level="${indentLevel}">${text}</INDENT>`
MarkIndent(s, j, e) ==
    IndentOpen \o ToDecimal(IndentLast(s, j) - j + 1) \o IndentOpenEnd
        \o SubSeq(s, IndentLast(s, j) + 1, e) \o IndentClose

\* /[ ]{2,}/g
SpacesRunEnd(s, j) ==
    LET e == RunEnd(IsSpaceChar, s, j) IN IF e >= j + 1 THEN e ELSE 0

\* line.match(/[.!?:;,]$/)
EndsWithPunctuation(line) ==
    Len(line) > 0 /\ line[Len(line)] \in {".", "!", "?", ":", ";", ","}

\* one turn of the loop over the lines: the line as it is pushed
processedLine(lines, i) ==
    LET line == Trim(lines[i])
        next == IF i < Len(lines) THEN Trim(lines[i + 1]) ELSE <<>>
    IN IF line = <<>> THEN <<>>
       ELSE IF /\ i < Len(lines)
               /\ ~EndsWithPunctuation(line)
               /\ ~StartsWith(next, BulletTag)
               /\ ~StartsWith(next, HeaderOpen)
               /\ ~StartsWith(next, SubheaderOpen)
               /\ Len(next) > 0
            THEN IF EndsWith(line, <<"-">>) THEN SubSeq(line, 1, Len(line) - 1)
                 ELSE line \o <<" ">>
       ELSE line

\* the replace calls on the text of a parsed PDF, in their order
preparePdfStep(k, s) ==
    CASE k = 1 -> ReplaceRegex(BulletEnd, MarkBullet, s)
      [] k = 2 -> ReplaceRegex(LineDashEnd, MarkBulletLine, s)
      [] k = 3 -> ReplaceRegex(LineStarEnd, MarkBulletLine, s)
      [] k = 4 -> ReplaceRegex(CapsLineEnd, MarkHeader, s)
      [] k = 5 -> ReplaceRegex(ColonLineEnd, MarkSubheader, s)
      [] k = 6 -> ReplaceRegex(IndentLineEnd, MarkIndent, s)
      [] k = 7 -> ReplaceRegex(SpacesRunEnd, OneSpace, s)

\* the loop over the lines, and processedLines.join
processLines(rawText) ==
    Apply(LAMBDA lines : Join([i \in 1..Len(lines) |-> processedLine(lines, i)], <<NL>>),
          Split(rawText, NL))

\* the text of a parsed PDF as the route prepares it
preparePdfText(pdfText) == processLines(RunSteps(preparePdfStep, pdfText, 1, 7))

\* /\n\s*\n\s*\n/
BlankLinesEnd(s, j) ==
    LET w == RunEnd(IsSpace, s, j + 1)
        nls == {k \in (j + 1)..w : s[k] = NL}
    IN IF At(s, j) = NL /\ Cardinality(nls) >= 2 THEN Max(nls) ELSE 0

\* cleanedText of the route
cleanResumeStep(k, s) ==
    CASE k = 1 -> ReplaceAll(s, <<CR, NL>>, <<NL>>, FALSE, FALSE)
      [] k = 2 -> ReplaceRegex(BlankLinesEnd, TwoNewlines, s)
      [] k = 3 -> Trim(s)

cleanResumeText(resumeText) == RunSteps(cleanResumeStep, resumeText, 1, 3)
-----------------------------------------------------------------------------
(* The extract-resume-text route: POST *)

PdfType == "application/pdf"
DocxType == "application/vnd.openxmlformats-officedocument.wordprocessingml.document"
DocType == "application/msword"
PlainType == "text/plain"
OtherType == "application/rtf"

\* a response of the route: status, error (the message, "" when there is none),
\* text (the structured text) and original (the text before it is structured)
ErrorResponse(status, error) ==
    [status |-> status, error |-> error, text |-> <<>>, original |-> <<>>]

TextResponse(text) ==
    [status |-> 200, error |-> "", text |-> structureResumeText(text), original |-> text]

\* the response to a request that carries file; file.readable: the parser of the
\* file's type (pdfParse, docxParse, File.text) returns file.text and does not throw
extractResumeText(file) ==
    IF file.type = "none" THEN ErrorResponse(400, "No resume file provided")
    ELSE IF file.type = PdfType
         THEN IF file.readable THEN TextResponse(cleanPdfText(file.text))
              ELSE ErrorResponse(500, "Failed to parse PDF file")
    ELSE IF file.type = DocxType
         THEN IF file.readable THEN TextResponse(file.text)
              ELSE ErrorResponse(400, "Failed to parse DOCX file. Please try another format.")
    ELSE IF file.type = DocType
         THEN ErrorResponse(400, "DOC format is not fully supported. Please convert to PDF or DOCX and try again.")
    ELSE IF file.type = PlainType
         THEN IF file.readable THEN TextResponse(file.text)
              ELSE ErrorResponse(500, "Internal server error while processing the resume")
    ELSE IF file.readable THEN TextResponse(file.text)
         ELSE ErrorResponse(400, "Unsupported file format. Please upload a PDF, DOCX, or TXT file.")

\* pieces of resume text: the texts a file holds are made of them
ExtractBlocks ==
    << <<"J", "o", "h", "n", " ", "D", "o", "e", "\n", "\n", "\n", "\n">>,
       <<"E", "D", "U", "C", "A", "T", "I", "O", "N", "\n">>,
       <<"S", "k", "i", "l", "l", "s", ":", " ", "P", "y", "t", "h", "o", "n", ",", " ", "J", "a", "v", "a", "\n">>,
       <<"0", "1", "/", "2", "0", "2", "0", " ", "-", " ", "1", "2", "/", "2", "0", "2", "1", "\n">>,
       <<"J", "a", "n", " ", "2", "0", "2", "0", " ", "-", " ", "P", "r", "e", "s", "e", "n", "t", "\n">>,
       <<"B", ".", "S", ".", " ", "(", "2", "0", "1", "3", "-", "2", "0", "1", "7", ")", "\n">>,
       <<"d", "e", "v", "e", "l", "o", "p", "-", "\n">>,
       <<"i", "n", "g", " ", "t", "h", "e", " ", "a", "p", "p", "\n">>,
       <<"U2022", " ", "L", "e", "d", " ", "a", " ", "t", "e", "a", "m", "\n">>,
       <<"j", "o", "h", "n", "@", "x", ".", "c", "o", "m", "\n">>,
       <<"W", "O", "R", "K", " ", "E", "X", "P", "E", "R", "I", "E", "N", "C", "E", "\n">>,
       <<"M", "a", "n", "a", "g", "e", "d", " ", "p", "r", "o", "j", "e", "c", "t", "s", " ", "d", "a", "i", "l", "y", "\n">> >>

\* the date ranges of the pieces, one per recognized form
DateSamples ==
    { <<"0", "1", "/", "2", "0", "2", "0", " ", "-", " ", "1", "2", "/", "2", "0", "2", "1">>,
       <<"J", "a", "n", " ", "2", "0", "2", "0", " ", "-", " ", "P", "r", "e", "s", "e", "n", "t">>,
       <<"2", "0", "1", "3", "-", "2", "0", "1", "7">> }

MaxBlocks == 2

NoFile == [type |-> "none", readable |-> FALSE, text |-> <<>>]

\* the files a request can carry: a readable file of each type with each text,
\* and a file of each type that its parser rejects
ExtractFiles ==
    {NoFile}
    \cup {[type |-> ty, readable |-> TRUE, text |-> t] :
            ty \in {PdfType, DocxType, DocType, PlainType, OtherType},
            t \in FragmentTexts(ExtractBlocks, MaxBlocks)}
    \cup {[type |-> ty, readable |-> FALSE, text |-> <<>>] :
            ty \in {PdfType, DocxType, PlainType, OtherType}}

ExtractInit == RewriteIdle /\ ExtractIdle /\ OptimizeIdle /\ RenderIdle /\ EditIdle /\ PdfIdle /\ ViewIdle

\* a client posts a form to the route
ExtractRequest ==
    /\ exPc = "idle"
    /\ \E file \in ExtractFiles : exFile' = file
    /\ exPc' = "request"
    /\ UNCHANGED <<exResponse, rwVars, opVars, rnVars, edVars, pdVars, tmVars>>

\* the handler answers the request
ExtractPost ==
    /\ exPc = "request"
    /\ exResponse' = extractResumeText(exFile)
    /\ exPc' = "done"
    /\ UNCHANGED <<exFile, rwVars, opVars, rnVars, edVars, pdVars, tmVars>>

ExtractNext == ExtractRequest \/ ExtractPost

SpecExtract == ExtractInit /\ [][ExtractNext]_vars

\* the request was answered with the text of a PDF that pdfParse could read
PdfExtracted ==
    exPc = "done" /\ exFile.type = PdfType /\ exFile.readable /\ exResponse.status = 200

\* the request was answered with the text of some file
TextExtracted == exPc = "done" /\ exResponse.status = 200

RECURSIVE WordsFrom(_, _)
\* the words of s from index i on: the maximal runs of letters and digits
WordsFrom(s, i) ==
    IF i > Len(s) THEN {}
    ELSE IF IsLetter(s[i]) \/ IsDigit(s[i])
         THEN LET e == RunEnd(LAMBDA c : IsLetter(c) \/ IsDigit(c), s, i)
              IN {SubSeq(s, i, e)} \cup WordsFrom(s, e + 1)
         ELSE WordsFrom(s, i + 1)

Words(s) == WordsFrom(s, 1)

\* C2: every word of every non-blank line of a source text is still in the text
\* after cleanPdfText and structureResumeText, in some letter case
NoLineContentLost ==
    PdfExtracted => \A w \in Words(exFile.text) : IncludesCI(exResponse.text, w)

\* C7: a date range of a recognized form in the text that is segmented stays in
\* the segmented text, as it is, inside the DATE tag
DateRangeKeptInTag ==
    TextExtracted =>
        \A d \in DateSamples :
            Includes(exResponse.original, d)
                => Includes(exResponse.text, DateOpen \o d \o DateClose)

\* the text has four or more newlines in a row (three or more blank lines)
\* between two lines of text
HasBlankRun(s) ==
    \E i \in 2..Len(s) :
        /\ s[i - 1] # NL
        /\ \A k \in 0..3 : At(s, i + k) = NL
        /\ \E j \in (i + 4)..Len(s) : s[j] # NL

\* the text has a blank line between two lines of text
HasBlankLine(s) ==
    \E i \in 2..Len(s) :
        s[i - 1] # NL /\ s[i] = NL /\ At(s, i + 1) = NL /\ At(s, i + 2) \notin {NL, ""}

\* C9: a run of three or more blank lines of the source text is exactly one
\* blank line of the normalized text, whatever follows the run
BlankRunCollapsed ==
    (PdfExtracted /\ HasBlankRun(exFile.text)) =>
        /\ HasBlankLine(exResponse.original)
        /\ ~Includes(exResponse.original, <<NL, NL, NL>>)

\* C10: the two parts of a word that a hyphen breaks across two lines of the
\* source text are next to each other in the normalized text
BrokenWordJoined ==
    PdfExtracted =>
        \A i \in 1..Len(exFile.text) :
            ( /\ IsLower(exFile.text[i])
              /\ At(exFile.text, i + 1) = "-"
              /\ At(exFile.text, i + 2) = NL
              /\ IsLower(At(exFile.text, i + 3)) )
                => Includes(exResponse.original, <<exFile.text[i], exFile.text[i + 3]>>)

\* the places of the name tags of a structured text
NameTags(s) == {j \in 1..Len(s) : MatchAt(s, HeaderOpen, FALSE, j)}

\* C15: the structured text of every non-empty text, whatever its number of
\* lines, has exactly one name tag, and the tag opens the text
NameTaggedOnce ==
    (TextExtracted /\ Trim(exResponse.original) # <<>>)
        => /\ Cardinality(NameTags(exResponse.text)) = 1
           /\ StartsWith(exResponse.text, HeaderOpen)

\* line is a section header: an entry of sectionHeaders in upper case on a line
\* of its own, or such an entry followed by a colon
HeaderKeyOf(line) ==
    {sectionHeaders[h] : h \in {k \in DOMAIN sectionHeaders :
                                   Trim(line) \in {sectionHeaders[k],
                                                   sectionHeaders[k] \o <<":">>}}}

RECURSIVE HeaderLinesFrom(_, _)
\* the keys of the section headers among lines i.. of lines, in their order
HeaderLinesFrom(lines, i) ==
    IF i > Len(lines) THEN <<>>
    ELSE IF HeaderKeyOf(lines[i]) # {}
         THEN <<CHOOSE key \in HeaderKeyOf(lines[i]) : TRUE>> \o HeaderLinesFrom(lines, i + 1)
         ELSE HeaderLinesFrom(lines, i + 1)

\* what the section tag that opens at j encloses
SectionTagAt(s, j) ==
    LET b == j + Len(SectionOpen)
        closes == {k \in b..Len(s) : MatchAt(s, SectionClose, FALSE, k)}
    IN SubSeq(s, b, IF closes = {} THEN Len(s) ELSE Min(closes) - 1)

RECURSIVE SectionTagsFrom(_, _)
\* what the section tags of s from index i on enclose, in their order
SectionTagsFrom(s, i) ==
    IF i > Len(s) THEN <<>>
    ELSE IF MatchAt(s, SectionOpen, FALSE, i)
         THEN <<SectionTagAt(s, i)>> \o SectionTagsFrom(s, i + 1)
         ELSE SectionTagsFrom(s, i + 1)

\* C16: the section tags of the structured text are the section headers of the
\* text, one tag with the key of the header for each header line, in their
\* order: every header line is tagged, also the second one and a header of two
\* words, and nothing else is
HeadersTagged ==
    TextExtracted
        => SectionTagsFrom(exResponse.text, 1)
              = HeaderLinesFrom(Split(exResponse.original, NL), 1)
\* the replace calls on a bullet line of an unchanged optimized text
AiVerbReplacements ==
    << [pat |-> <<"D", "e", "v", "e", "l", "o", "p", "e", "d">>,
        rep |-> <<"E", "n", "g", "i", "n", "e", "e", "r", "e", "d">>],
       [pat |-> <<"d", "e", "v", "e", "l", "o", "p", "e", "d">>,
        rep |-> <<"e", "n", "g", "i", "n", "e", "e", "r", "e", "d">>],
       [pat |-> <<"B", "u", "i", "l", "t">>,
        rep |-> <<"C", "o", "n", "s", "t", "r", "u", "c", "t", "e", "d">>],
       [pat |-> <<"b", "u", "i", "l", "t">>,
        rep |-> <<"c", "o", "n", "s", "t", "r", "u", "c", "t", "e", "d">>],
       [pat |-> <<"C", "r", "e", "a", "t", "e", "d">>,
        rep |-> <<"A", "r", "c", "h", "i", "t", "e", "c", "t", "e", "d">>],
       [pat |-> <<"c", "r", "e", "a", "t", "e", "d">>,
        rep |-> <<"a", "r", "c", "h", "i", "t", "e", "c", "t", "e", "d">>],
       [pat |-> <<"I", "m", "p", "l", "e", "m", "e", "n", "t", "e", "d">>,
        rep |-> <<"S", "p", "e", "a", "r", "h", "e", "a", "d", "e", "d">>],
       [pat |-> <<"i", "m", "p", "l", "e", "m", "e", "n", "t", "e", "d">>,
        rep |-> <<"s", "p", "e", "a", "r", "h", "e", "a", "d", "e", "d">>],
       [pat |-> <<"M", "a", "d", "e">>,
        rep |-> <<"C", "r", "a", "f", "t", "e", "d">>],
       [pat |-> <<"m", "a", "d", "e">>,
        rep |-> <<"c", "r", "a", "f", "t", "e", "d">>],
       [pat |-> <<"L", "e", "d">>,
        rep |-> <<"O", "r", "c", "h", "e", "s", "t", "r", "a", "t", "e", "d">>],
       [pat |-> <<"l", "e", "d">>,
        rep |-> <<"o", "r", "c", "h", "e", "s", "t", "r", "a", "t", "e", "d">>],
       [pat |-> <<"I", "m", "p", "r", "o", "v", "e", "d">>,
        rep |-> <<"O", "p", "t", "i", "m", "i", "z", "e", "d">>],
       [pat |-> <<"i", "m", "p", "r", "o", "v", "e", "d">>,
        rep |-> <<"o", "p", "t", "i", "m", "i", "z", "e", "d">>],
       [pat |-> <<"D", "e", "s", "i", "g", "n", "e", "d">>,
        rep |-> <<"C", "o", "n", "c", "e", "p", "t", "u", "a", "l", "i", "z", "e", "d">>],
       [pat |-> <<"d", "e", "s", "i", "g", "n", "e", "d">>,
        rep |-> <<"c", "o", "n", "c", "e", "p", "t", "u", "a", "l", "i", "z", "e", "d">>] >>

\* the replace calls on a bullet line of an unchanged rule_based text
RuleVerbReplacements ==
    << [pat |-> <<"D", "e", "v", "e", "l", "o", "p", "e", "d">>,
        rep |-> <<"C", "r", "e", "a", "t", "e", "d">>],
       [pat |-> <<"d", "e", "v", "e", "l", "o", "p", "e", "d">>,
        rep |-> <<"c", "r", "e", "a", "t", "e", "d">>],
       [pat |-> <<"B", "u", "i", "l", "t">>,
        rep |-> <<"D", "e", "v", "e", "l", "o", "p", "e", "d">>],
       [pat |-> <<"b", "u", "i", "l", "t">>,
        rep |-> <<"d", "e", "v", "e", "l", "o", "p", "e", "d">>],
       [pat |-> <<"C", "r", "e", "a", "t", "e", "d">>,
        rep |-> <<"P", "r", "o", "d", "u", "c", "e", "d">>],
       [pat |-> <<"c", "r", "e", "a", "t", "e", "d">>,
        rep |-> <<"p", "r", "o", "d", "u", "c", "e", "d">>],
       [pat |-> <<"I", "m", "p", "l", "e", "m", "e", "n", "t", "e", "d">>,
        rep |-> <<"D", "e", "p", "l", "o", "y", "e", "d">>],
       [pat |-> <<"i", "m", "p", "l", "e", "m", "e", "n", "t", "e", "d">>,
        rep |-> <<"d", "e", "p", "l", "o", "y", "e", "d">>] >>

MockOptimized ==
    <<"T", "h", "i", "s", " ", "i", "s", " ", "a", " ", "m", "o", "c", "k", " ", "o", "p", "t", "i", "m", "i", "z", "e", "d", " ", "v", "e", "r", "s", "i", "o", "n", " ", "o", "f", " ", "y", "o", "u", "r", " ", "r", "e", "s", "u", "m", "e", ".">>

MockOriginal ==
    <<"T", "h", "i", "s", " ", "i", "s", " ", "w", "h", "e", "r", "e", " ", "y", "o", "u", "r", " ", "o", "r", "i", "g", "i", "n", "a", "l", " ", "r", "e", "s", "u", "m", "e", " ", "w", "o", "u", "l", "d", " ", "b", "e", " ", "s", "h", "o", "w", "n", ".">>

MockDraft ==
    <<"T", "h", "i", "s", " ", "i", "s", " ", "a", " ", "m", "o", "c", "k", " ", "d", "r", "a", "f", "t", " ", "v", "e", "r", "s", "i", "o", "n", ".">>

\* the texts of the files that are posted to the route
OptimizeTexts ==
    { <<"U25CF", " ", "D", "e", "v", "e", "l", "o", "p", "e", "d", " ", "t", "h", "e", " ", "a", "p", "p", "\r", "\n", "\n", "\n", "\n", "-", " ", "r", "e", "s", "p", "o", "n", "s", "i", "b", "l", "e", " ", "f", "o", "r", " ", "a", " ", "t", "e", "a", "m", " ", "o", "f", " ", "J", "a", "v", "a", " ", "d", "e", "v", "e", "l", "o", "p", "-", "\n", "e", "r", "s">>,
      <<"S", "K", "I", "L", "L", "S", "\n", "J", "a", "v", "a", "\n", " ", " ", "h", "e", "l", "p", "e", "d", " ", "w", "i", "t", "h", " ", " ", " ", "t", "e", "s", "t", "i", "n", "g">>,
      <<"L", "e", "d", " ", "a", " ", "t", "e", "a", "m", "\n", "o", "f", " ", "e", "n", "g", "i", "n", "e", "e", "r", "s">> }

\* texts that the backend answers with
AiText ==
    <<"U25CF", " ", "E", "n", "g", "i", "n", "e", "e", "r", "e", "d", " ", "t", "h", "e", " ", "a", "p", "p", ".">>

RuleText ==
    <<"U25CF", " ", "C", "r", "e", "a", "t", "e", "d", " ", "t", "h", "e", " ", "a", "p", "p", ".">>

-----------------------------------------------------------------------------
(* Resume texts and the ResumeData that parseResumeText makes of them     *)

\* the lines of the source texts
NameLine ==
    <<"J", "o", "h", "n", " ", "D", "o", "e", "\n", "E", "n", "g", "i", "n", "e", "e", "r", "\n">>

SectionLines ==
    [experience |->
        <<"E", "X", "P", "E", "R", "I", "E", "N", "C", "E", "\n", "A", "c", "m", "e", "\n">>,
     education |->
        <<"E", "D", "U", "C", "A", "T", "I", "O", "N", "\n", "T", "e", "c", "h", " ", "U", "n", "i", "v", "e", "r", "s", "i", "t", "y", "\n">>,
     skills |->
        <<"S", "K", "I", "L", "L", "S", "\n">>]

CategoryLine ==
    <<"L", "a", "n", "g", "u", "a", "g", "e", "s", ":", " ", "J", "a", "v", "a", "\n">>

DetailLines ==
    [full |->
        <<"P", "R", "O", "J", "E", "C", "T", "S", "\n", "S", "i", "t", "e", " ", "2", "0", "2", "0", " ", "-", " ", "2", "0", "2", "1", "\n", "A", "W", "A", "R", "D", "S", "\n", "P", "r", "i", "z", "e", "\n">>,
     bare |->
        <<"P", "R", "O", "J", "E", "C", "T", "S", "\n", "S", "i", "t", "e", "\n">>,
     open |->
        <<"P", "R", "O", "J", "E", "C", "T", "S", "\n", "S", "i", "t", "e", " ", "-", " ", "2", "0", "2", "1", "\n">>,
     freeform |->
        <<"P", "R", "O", "J", "E", "C", "T", "S", "\n", "S", "i", "t", "e", "\n", "A", "W", "A", "R", "D", "S", "\n", "P", "r", "i", "z", "e", " ", "o", "f", " ", "t", "h", "e", " ", "y", "e", "a", "r", "\n">>]

\* texts of white space only
BlankTexts ==
    {<<" ">>,
     <<" ", "\n", "\t", "\n">>}

\* the values of the fields of the documents
Email ==
    <<"j", "o", "h", "n", "@", "x", ".", "c", "o", "m">>

Phone ==
    <<"5", "5", "5", "-", "0", "1", "0", "0">>

City ==
    <<"B", "o", "s", "t", "o", "n">>

LinkedIn ==
    <<"l", "i", "n", "k", "e", "d", "i", "n", ".", "c", "o", "m", "/", "i", "n", "/", "j", "o", "h", "n">>

GitHub ==
    <<"g", "i", "t", "h", "u", "b", ".", "c", "o", "m", "/", "j", "o", "h", "n">>

Portfolio ==
    <<"j", "o", "h", "n", ".", "d", "e", "v">>

Company ==
    <<"A", "c", "m", "e">>

JobTitle ==
    <<"D", "e", "v", "e", "l", "o", "p", "e", "r">>

Year2020 ==
    <<"2", "0", "2", "0">>

Year2021 ==
    <<"2", "0", "2", "1">>

Present ==
    <<"P", "r", "e", "s", "e", "n", "t">>

PresentLower ==
    <<"p", "r", "e", "s", "e", "n", "t">>

Institution ==
    <<"T", "e", "c", "h", " ", "U", "n", "i", "v", "e", "r", "s", "i", "t", "y">>

Degree ==
    <<"B", "S", "c">>

FieldOfStudy ==
    <<"P", "h", "y", "s", "i", "c", "s">>

Gpa ==
    <<"3", ".", "9">>

ProjectName ==
    <<"S", "i", "t", "e">>

SummaryText ==
    <<"E", "n", "g", "i", "n", "e", "e", "r">>

CategoryName ==
    <<"L", "a", "n", "g", "u", "a", "g", "e", "s">>

SkillName ==
    <<"J", "a", "v", "a">>

ProjectDescription ==
    <<"A", " ", "w", "e", "b", " ", "s", "i", "t", "e">>

CertificationName ==
    <<"A", "W", "S">>

Issuer ==
    <<"A", "m", "a", "z", "o", "n">>

AwardTitle ==
    <<"P", "r", "i", "z", "e">>

AwardContent ==
    <<"P", "r", "i", "z", "e", " ", "o", "f", " ", "t", "h", "e", " ", "y", "e", "a", "r">>

BulletText ==
    <<"B", "u", "i", "l", "t", " ", "t", "h", "e", " ", "s", "i", "t", "e">>

Dash ==
    <<" ", "-", " ">>

GpaLabel ==
    <<"G", "P", "A", ":", " ">>

Colon ==
    <<":">>

BulletSeparator ==
    <<" ", "U2022", " ">>

NoContent ==
    <<"N", "o", " ", "c", "o", "n", "t", "e", "n", "t">>

MaxCategories == 2

\* the sections whose headers the source texts have
HeaderKinds == {"experience", "education", "skills"}

\* the orders in which the headers of a source text first occur
HeaderOrders ==
    {order \in UNION {[1..n -> HeaderKinds] : n \in 0..Cardinality(HeaderKinds)} :
        \A i, j \in DOMAIN order : i # j => order[i] # order[j]}

Has(order, kind) == \E i \in DOMAIN order : order[i] = kind

\* what the source texts say about the optional fields: every one of them, none
\* of them, a project with an end date only, an additional section of free text
DetailKinds == {"full", "bare", "open", "freeform"}

\* the ResumeData of a source text whose headers first occur in the given
\* order and whose skills section has n categories; headers keeps the order
\* of the source text beside the data
DocumentOf(order, n) ==
    [headers |-> order,
     contactInfo |-> [name |-> "John Doe", email |-> Email, phone |-> Phone,
                      location |-> City, linkedin |-> LinkedIn, github |-> GitHub,
                      portfolio |-> Portfolio],
     summary |-> SummaryText,
     experience |->
         IF Has(order, "experience")
         THEN <<[company |-> Company, title |-> JobTitle, startDate |-> Year2020,
                 endDate |-> PresentLower, location |-> City,
                 bullets |-> <<BulletText>>]>>
         ELSE <<>>,
     education |->
         IF Has(order, "education")
         THEN <<[institution |-> Institution, degree |-> Degree, field |-> FieldOfStudy,
                 startDate |-> Year2020, endDate |-> Year2021, location |-> City,
                 gpa |-> Gpa]>>
         ELSE <<>>,
     skills |-> [categories |->
                   [i \in 1..n |-> [name |-> CategoryName, skills |-> <<SkillName>>]]],
     projects |-> <<[name |-> ProjectName, description |-> ProjectDescription,
                     startDate |-> Year2020, endDate |-> Year2021,
                     bullets |-> <<BulletText>>]>>,
     certifications |-> <<[name |-> CertificationName, issuer |-> Issuer,
                           date |-> Year2021]>>,
     additionalSections |->
         <<[title |-> "Awards", items |-> <<[title |-> AwardTitle, bullets |-> <<>>]>>]>>]

\* an entry without its optional fields
Bare(entry, fields) ==
    [f \in DOMAIN entry |-> IF f \in fields THEN <<>> ELSE entry[f]]

\* the document of a source text that says less, or something else, about the
\* optional fields
Detailed(doc, detail) ==
    CASE detail = "full" -> doc
      [] detail = "bare" ->
            [doc EXCEPT
                !.contactInfo = Bare(@, {"location", "linkedin", "github", "portfolio"}),
                !.experience = [i \in DOMAIN @ |-> Bare(@[i], {"location"})],
                !.education = [i \in DOMAIN @ |-> Bare(@[i], {"location", "gpa", "field"})],
                !.projects = [i \in DOMAIN @ |->
                                 Bare(@[i], {"description", "startDate", "endDate",
                                             "bullets"})],
                !.certifications = [i \in DOMAIN @ |-> Bare(@[i], {"issuer", "date"})],
                !.additionalSections = <<>>]
      [] detail = "open" ->
            [doc EXCEPT
                !.projects = [i \in DOMAIN @ |-> Bare(@[i], {"startDate"})],
                !.additionalSections = <<>>]
      [] detail = "freeform" ->
            [doc EXCEPT
                !.additionalSections = <<[title |-> "Awards", content |-> AwardContent]>>]

\* the document of a text of white space
EmptyDocument ==
    [headers |-> <<>>,
     contactInfo |-> [name |-> "", email |-> <<>>, phone |-> <<>>, location |-> <<>>,
                      linkedin |-> <<>>, github |-> <<>>, portfolio |-> <<>>],
     summary |-> <<>>,
     experience |-> <<>>,
     education |-> <<>>,
     skills |-> [categories |-> <<>>],
     projects |-> <<>>,
     certifications |-> <<>>,
     additionalSections |-> <<>>]

\* the source texts with all their optional fields, and those of one order of
\* the headers with the other details
SourceKinds ==
    {[order |-> order, n |-> n, detail |-> "full"] :
        order \in HeaderOrders, n \in 0..MaxCategories}
    \cup {[order |-> <<"experience", "education", "skills">>, n |-> 1, detail |-> detail] :
            detail \in DetailKinds}

\* a source text: the name, the sections in their order, the skill categories,
\* the lines of the other sections
SourceText(kind) ==
    NameLine
    \o Flatten([i \in DOMAIN kind.order |-> SectionLines[kind.order[i]]])
    \o Flatten([i \in 1..kind.n |-> CategoryLine])
    \o DetailLines[kind.detail]

\* the first index of pat in text, 0 when it does not occur
FirstIndex(text, pat) ==
    LET found == {i \in 1..Len(text) : MatchAt(text, pat, FALSE, i)}
    IN IF found = {} THEN 0 ELSE Min(found)

\* the kinds of headers with the given first indexes, in the order of their
\* first occurrence
OrderOf(firstIndex) ==
    CHOOSE order \in HeaderOrders :
        /\ \A kind \in HeaderKinds : Has(order, kind) <=> firstIndex[kind] > 0
        /\ \A i, j \in DOMAIN order :
              i < j => firstIndex[order[i]] < firstIndex[order[j]]

\* the kinds of headers of a text in the order of their first occurrence
HeaderOrderOf(text) ==
    Apply(OrderOf, [experience |-> FirstIndex(text, SectionLines.experience),
                    education |-> FirstIndex(text, SectionLines.education),
                    skills |-> FirstIndex(text, SectionLines.skills)])

\* the structured data of a text.  A text of white space gives the document
\* with empty collections; parseResumeText returns for every text
parseResumeText(text) ==
    IF Trim(text) = <<>> THEN EmptyDocument
    ELSE IF StartsWith(text, NameLine)
    THEN Detailed(
             DocumentOf(HeaderOrderOf(text),
                        Cardinality({i \in 1..Len(text) :
                                        MatchAt(text, CategoryLine, FALSE, i)})),
             CHOOSE detail \in DetailKinds : EndsWith(text, DetailLines[detail]))
    ELSE [parsedFrom |-> text]

ResumeDocuments == {parseResumeText(SourceText(kind)) : kind \in SourceKinds}
-----------------------------------------------------------------------------
(* The optimize-resume route: POST *)

\* NextResponse.json(body, {status}); the status is 200 when none is given
JsonResponse(status, body) == [status |-> status, data |-> body]

\* the answer to a PDF that pdfParse rejects
mockResponse ==
    JsonResponse(200,
        [score |-> 75,
         issues |-> <<"PDF parsing error - returning mock data",
                      "Consider replacing weak verbs with stronger alternatives",
                      "Add more quantifiable achievements">>,
         optimized |-> MockOptimized,
         original |-> MockOriginal,
         draft |-> MockDraft])

\* the text of the file is read without an exception: pdfParse for a PDF,
\* File.text for every other type
textRead(file) == file.readable

\* resumeText of a file that was read
resumeTextOf(file) ==
    IF file.type = PdfType THEN preparePdfText(file.text) ELSE file.text

\* the body of the request to the backend
payloadOf(file, jobDescription) ==
    [resume_text |-> cleanResumeText(resumeTextOf(file)),
     job_description |-> jobDescription]

\* a line that starts with the bullet, with the verbs of the table replaced
enhanceLine(line, table) ==
    IF StartsWith(Trim(line), <<BlackCircle>>)
    THEN ApplyReplacements(line, table, FALSE, TRUE, 1)
    ELSE line

\* original.split, lines.map, join
enhanceLines(original, table) ==
    LET lines == Split(original, NL)
    IN Join([i \in 1..Len(lines) |-> enhanceLine(lines[i], table)], <<NL>>)

\* a field of the data is there and is not the empty string
Truthy(responseData, field) ==
    field \in DOMAIN responseData /\ responseData[field] # <<>>

\* responseData after the comparison of its versions
distinguishVersions(responseData) ==
    IF Truthy(responseData, "optimized") /\ Truthy(responseData, "rule_based")
       /\ Truthy(responseData, "original")
    THEN LET optimized ==
                 IF responseData.optimized = responseData.original
                 THEN enhanceLines(responseData.original, AiVerbReplacements)
                 ELSE responseData.optimized
             rule_based ==
                 IF responseData.rule_based = responseData.original
                 THEN enhanceLines(responseData.original, RuleVerbReplacements)
                 ELSE responseData.rule_based
         IN [optimized |-> optimized, rule_based |-> rule_based, draft |-> rule_based]
            @@ responseData
    ELSE responseData

\* the answer when the backend has answered the call
backendResponse(responseData, file) ==
    JsonResponse(200,
        [optimized_with_ai |-> TRUE,
         original_format |-> [filename |-> file.name, filetype |-> file.type,
                              pdfMetadata |-> file.type = PdfType]]
        @@ distinguishVersions(responseData))

\* the answer of the fallback, were it marked as the work of the backend
fallbackMarkedAi(cleanedText, jobDescription) ==
    JsonResponse(200,
        [score |-> 82,
         issues |-> <<"AI backend unavailable - using local enhancements">>,
         optimized |-> enhanceResumeOptimized(cleanedText, jobDescription),
         original |-> cleanedText,
         draft |-> enhanceResumeDraft(cleanedText, jobDescription),
         optimized_with_ai |-> TRUE])

\* the answer when the call to the backend has thrown
fallbackResponse(cleanedText, jobDescription) ==
    JsonResponse(200,
        [score |-> 82,
         issues |-> <<"AI backend unavailable - using local enhancements",
                      "Consider quantifying your achievements with specific numbers",
                      "Use more action verbs at the beginning of bullet points">>,
         optimized |-> enhanceResumeOptimized(cleanedText, jobDescription),
         original |-> cleanedText,
         draft |-> enhanceResumeDraft(cleanedText, jobDescription),
         optimized_with_ai |-> FALSE])

\* the response to a request with file and jobDescription; backend: what the
\* call to the backend comes to, when the handler gets as far as the call
optimizeResume(file, jobDescription, backend) ==
    IF file = Null
    THEN JsonResponse(400, [error |-> "Resume file is required"])
    ELSE IF ~textRead(file)
         THEN IF file.type = PdfType
              THEN mockResponse
              ELSE JsonResponse(400,
                       [error |-> "Could not read resume file. Please try again with a different file."])
         ELSE IF backend.kind = "ok"
              THEN backendResponse(backend.data, file)
              ELSE Apply(LAMBDA payload :
                             fallbackResponse(payload.resume_text, payload.job_description),
                         payloadOf(file, jobDescription))

-----------------------------------------------------------------------------
(* The optimize page, the resume store and the requests between the page   *)
(* and the optimize-resume route                                           *)

MaxRequests == 1

\* the files the dropzone of the page accepts
OptimizeFiles ==
    {[name |-> "resume.pdf", type |-> PdfType, readable |-> TRUE, text |-> t] :
        t \in OptimizeTexts}
    \cup {[name |-> "resume.txt", type |-> PlainType, readable |-> TRUE, text |-> t] :
            t \in OptimizeTexts}
    \cup {[name |-> "resume.pdf", type |-> PdfType, readable |-> FALSE, text |-> <<>>],
          [name |-> "resume.txt", type |-> PlainType, readable |-> FALSE, text |-> <<>>]}

\* the call to the backend was not made
NotCalled == [kind |-> "not called"]

\* the call to the backend throws: a status outside 2xx, no answer within the
\* timeout, no connection
BackendFailures ==
    {[kind |-> "status", status |-> 500], [kind |-> "timeout"], [kind |-> "refused"]}

\* what the backend can answer to a payload: versions that differ from the
\* original, versions that are the original, and no rule_based version
BackendAnswers(payload) ==
    {[kind |-> "ok",
      data |-> [score |-> 90, original |-> payload.resume_text,
                optimized |-> AiText, rule_based |-> RuleText]],
     [kind |-> "ok",
      data |-> [score |-> 90, original |-> payload.resume_text,
                optimized |-> payload.resume_text, rule_based |-> payload.resume_text]],
     [kind |-> "ok",
      data |-> [score |-> 90, original |-> payload.resume_text,
                optimized |-> AiText, rule_based |-> <<>>]]}

\* what the call to the backend can come to for a request
BackendOutcomes(file, jobDescription) ==
    IF file = Null \/ ~textRead(file) THEN {NotCalled}
    ELSE BackendFailures \cup BackendAnswers(payloadOf(file, jobDescription))

OptimizeInit ==
    /\ stFile = Null
    /\ stJob = <<>>
    /\ stLoading = FALSE
    /\ stResult = Null
    /\ stError = "null"
    /\ stData = Null
    /\ pgStep = 1
    /\ opReqs = <<>>
    /\ RewriteIdle /\ ExtractIdle /\ RenderIdle /\ EditIdle /\ PdfIdle /\ ViewIdle

\* onDrop of the dropzone
DropFile ==
    /\ pgStep = 1
    /\ \E file \in OptimizeFiles : stFile' = file
    /\ UNCHANGED <<stJob, stLoading, stResult, stError, stData, pgStep, opReqs>>
    /\ UNCHANGED <<rwVars, exVars, rnVars, edVars, pdVars, tmVars>>

\* the button under the name of the selected file
RemoveFile ==
    /\ pgStep = 1
    /\ stFile # Null
    /\ stFile' = Null
    /\ UNCHANGED <<stJob, stLoading, stResult, stError, stData, pgStep, opReqs>>
    /\ UNCHANGED <<rwVars, exVars, rnVars, edVars, pdVars, tmVars>>

\* a Continue button that does not look at the file
ContinueWithoutFile ==
    /\ pgStep = 1
    /\ pgStep' = 2
    /\ UNCHANGED <<stFile, stJob, stLoading, stResult, stError, stData, opReqs>>
    /\ UNCHANGED <<rwVars, exVars, rnVars, edVars, pdVars, tmVars>>

\* the Continue button
Continue ==
    /\ pgStep = 1
    /\ stFile # Null
    /\ pgStep' = 2
    /\ UNCHANGED <<stFile, stJob, stLoading, stResult, stError, stData, opReqs>>
    /\ UNCHANGED <<rwVars, exVars, rnVars, edVars, pdVars, tmVars>>

\* handleJobDescriptionChange
ChangeJobDescription ==
    /\ pgStep = 2
    /\ \E description \in JobDescriptions : stJob' = description
    /\ UNCHANGED <<stFile, stLoading, stResult, stError, stData, pgStep, opReqs>>
    /\ UNCHANGED <<rwVars, exVars, rnVars, edVars, pdVars, tmVars>>

\* the Back button
Back ==
    /\ pgStep = 2
    /\ pgStep' = 1
    /\ UNCHANGED <<stFile, stJob, stLoading, stResult, stError, stData, opReqs>>
    /\ UNCHANGED <<rwVars, exVars, rnVars, edVars, pdVars, tmVars>>

\* handleSubmit, up to the await of the call to the route
Submit ==
    /\ pgStep = 2
    /\ Len(opReqs) < MaxRequests
    /\ IF stFile = Null
       THEN UNCHANGED <<stLoading, stError, opReqs>>
       ELSE /\ stLoading' = TRUE
            /\ stError' = "null"
            /\ opReqs' = Append(opReqs, [file |-> stFile, jobDescription |-> stJob,
                                         state |-> "sent", backend |-> NotCalled,
                                         response |-> Null])
    /\ UNCHANGED <<stFile, stJob, stResult, stData, pgStep>>
    /\ UNCHANGED <<rwVars, exVars, rnVars, edVars, pdVars, tmVars>>

\* the route handles a request and answers it
RouteResponds ==
    /\ \E i \in 1..Len(opReqs) :
          /\ opReqs[i].state = "sent"
          /\ \E backend \in BackendOutcomes(opReqs[i].file, opReqs[i].jobDescription) :
                opReqs' = [opReqs EXCEPT
                              ![i].state = "answered",
                              ![i].backend = backend,
                              ![i].response = optimizeResume(opReqs[i].file,
                                                             opReqs[i].jobDescription,
                                                             backend)]
    /\ UNCHANGED <<stFile, stJob, stLoading, stResult, stError, stData, pgStep>>
    /\ UNCHANGED <<rwVars, exVars, rnVars, edVars, pdVars, tmVars>>

\* handleSubmit, from the answer of the route on: axios throws for a status
\* outside 2xx, and the catch sets the message of the exception as the error
PageReceives ==
    /\ \E i \in 1..Len(opReqs) :
          /\ opReqs[i].state = "answered"
          /\ opReqs' = [opReqs EXCEPT ![i].state = "received"]
          /\ IF opReqs[i].response.status = 200
             THEN /\ stResult' = opReqs[i].response.data
                  /\ stData' = [resumeData |->
                                    parseResumeText(opReqs[i].response.data.optimized),
                                originalResumeData |->
                                    parseResumeText(opReqs[i].response.data.original)]
                  /\ stLoading' = FALSE
                  /\ pgStep' = 3
                  /\ UNCHANGED stError
             ELSE /\ stError' = "Request failed with status code"
                  /\ stLoading' = FALSE
                  /\ UNCHANGED <<stResult, stData, pgStep>>
    /\ UNCHANGED <<stFile, stJob>>
    /\ UNCHANGED <<rwVars, exVars, rnVars, edVars, pdVars, tmVars>>

\* the Start Over button
StartOver ==
    /\ pgStep = 3
    /\ stFile' = Null
    /\ stJob' = <<>>
    /\ pgStep' = 1
    /\ UNCHANGED <<stLoading, stResult, stError, stData, opReqs>>
    /\ UNCHANGED <<rwVars, exVars, rnVars, edVars, pdVars, tmVars>>

OptimizeNext ==
    \/ DropFile
    \/ RemoveFile
    \/ Continue
    \/ ChangeJobDescription
    \/ Back
    \/ Submit
    \/ RouteResponds
    \/ PageReceives
    \/ StartOver

SpecOptimize == OptimizeInit /\ [][OptimizeNext]_vars

\* the badge beside "Compare your original resume with the AI-improved version"
ModeBadge ==
    IF pgStep = 3 /\ stResult # Null /\ "optimized_with_ai" \in DOMAIN stResult
    THEN IF stResult.optimized_with_ai THEN "AI-enhanced" ELSE "Rule-based mode"
    ELSE "none"

\* request i was answered after the call to the backend had failed
BackendFailed(i) ==
    opReqs[i].state \in {"answered", "received"} /\ opReqs[i].backend \in BackendFailures

\* the page shows the answer to request i
Shown(i) ==
    opReqs[i].state = "received" /\ pgStep = 3 /\ stResult = opReqs[i].response.data

\* C4: when the call to the backend fails, the request is answered with status
\* 200 and the rule-based rewrite of the cleaned text, marked optimized_with_ai =
\* false, and the page that shows this answer shows the badge "Rule-based mode"
FallbackOnBackendFailure ==
    \A i \in 1..Len(opReqs) :
        BackendFailed(i) =>
            LET payload == payloadOf(opReqs[i].file, opReqs[i].jobDescription)
                response == opReqs[i].response
            IN /\ response.status = 200
               /\ response.data.original = payload.resume_text
               /\ response.data.optimized =
                      enhanceResumeOptimized(payload.resume_text, payload.job_description)
               /\ response.data.draft =
                      enhanceResumeDraft(payload.resume_text, payload.job_description)
               /\ response.data.optimized_with_ai = FALSE
               /\ Shown(i) => ModeBadge = "Rule-based mode"

\* the page shows the rule-based answer to a request whose call to the backend
\* ran into the timeout
FallbackShown ==
    \E i \in 1..Len(opReqs) :
        /\ BackendFailed(i)
        /\ opReqs[i].backend.kind = "timeout"
        /\ Shown(i)
        /\ ModeBadge = "Rule-based mode"

\* C5: a request whose file cannot be read is answered with a failure status
ExtractionFailureReported ==
    \A i \in 1..Len(opReqs) :
        (opReqs[i].state \in {"answered", "received"} /\ ~textRead(opReqs[i].file))
            => opReqs[i].response.status # 200
-----------------------------------------------------------------------------
(* The lines of a parsed PDF and the text the route sends to the backend  *)

\* the lines of a text
LinesOf(text) == Split(text, NL)

\* a line that starts with a bullet marker
StartsWithBulletMarker(line) ==
    Len(Trim(line)) > 0
    /\ Trim(line)[1] \in {BulletGlyph, BlackCircle, "-", "*", EnDash, EmDash}

\* a line that looks like a header: upper-case words, or a label with a colon
LooksLikeHeader(line) ==
    LET t == Trim(line)
    IN Len(t) > 0
       /\ \/ \A k \in 1..Len(t) : IsUpperOrSpace(t[k])
          \/ t[Len(t)] = ":"

\* a line of plain text that a layout line break has cut: it ends in no
\* punctuation and in no hyphen
IsCutLine(line) ==
    /\ Len(Trim(line)) > 0
    /\ ~EndsWithPunctuation(Trim(line))
    /\ ~EndsWith(Trim(line), <<"-">>)
    /\ ~StartsWithBulletMarker(line)
    /\ ~LooksLikeHeader(line)

\* a line of plain text that continues the line before it
IsContinuationLine(line) ==
    Len(Trim(line)) > 0 /\ ~StartsWithBulletMarker(line) /\ ~LooksLikeHeader(line)

\* the requests whose PDF was parsed and prepared by the route
PreparedRequests ==
    {i \in 1..Len(opReqs) :
        /\ opReqs[i].state \in {"answered", "received"}
        /\ opReqs[i].file.type = PdfType
        /\ textRead(opReqs[i].file)}

\* C11: for every pair of consecutive lines of a parsed PDF where the first
\* ends in none of . ! ? : ; , and the second is non-empty and neither a bullet
\* nor a header, the text the route prepares holds the two lines as one line,
\* joined by exactly one space
SoftWrapJoined ==
    \A i \in PreparedRequests :
        LET lines == LinesOf(opReqs[i].file.text)
            prepared == payloadOf(opReqs[i].file, opReqs[i].jobDescription).resume_text
        IN \A k \in 1..(Len(lines) - 1) :
              (IsCutLine(lines[k]) /\ IsContinuationLine(lines[k + 1]))
                  => \E n \in 1..Len(LinesOf(prepared)) :
                        Includes(LinesOf(prepared)[n],
                                 Trim(lines[k]) \o <<" ">> \o Trim(lines[k + 1]))

\* C20: when a new file is selected, the store no longer holds the document
\* that was parsed from the file before it
DocumentDiscardedOnNewFile ==
    [][(stFile' # stFile /\ stFile' # Null) => stData' = Null]_vars

\* C27: an answer of the route that is marked optimized_with_ai = true carries
\* as its optimized text the optimized text that the backend returned
AiLabelledTextIsBackendText ==
    \A i \in 1..Len(opReqs) :
        (/\ opReqs[i].state \in {"answered", "received"}
         /\ opReqs[i].response.status = 200
         /\ "optimized_with_ai" \in DOMAIN opReqs[i].response.data
         /\ opReqs[i].response.data.optimized_with_ai = TRUE)
            => /\ opReqs[i].backend.kind = "ok"
               /\ opReqs[i].response.data.optimized = opReqs[i].backend.data.optimized

\* C28: the step of the optimize page is 1, 2 or 3; on step 2 a file is
\* selected, and on step 3 a result is stored
StepsConsistent ==
    /\ pgStep \in {1, 2, 3}
    /\ pgStep = 2 => stFile # Null
    /\ pgStep = 3 => stResult # Null

\* the page is on its third step with the answer to a request
ResultStepReached ==
    /\ pgStep = 3
    /\ stResult # Null
    /\ \E i \in 1..Len(opReqs) : opReqs[i].state = "received"

-----------------------------------------------------------------------------
(* The renderers: generateResumeHTML of the export-resume-pdf route and the *)
(* ResumePreview component.  A rendered page is the sequence of its section *)
(* blocks in document order; each block has the layout area it is in, the   *)
(* section of the data it shows, its title and its items.  An item is the   *)
(* sequence of its elements, an element the sequence of the pieces of text  *)
(* that the template puts into it.                                          *)

Block(area, section, title, items) ==
    [area |-> area, section |-> section, title |-> title, items |-> items]

\* cond ? block : ''
When(cond, blocks) == IF cond THEN blocks ELSE <<>>

\* date.toLowerCase()
toLowerCase(text) == [i \in DOMAIN text |-> ToLower(text[i])]

formatDate(date) ==
    IF date = <<>> THEN <<>>
    ELSE IF toLowerCase(date) = PresentLower THEN Present
    ELSE date

\* value ? `<div>${value}</div>` : ''
Field(value) == When(value # <<>>, << <<value>> >>)

\* bullets.map(bullet => `<li>${bullet}</li>`)
BulletElements(bullets) == [i \in DOMAIN bullets |-> <<bullets[i]>>]

\* the contact block of the sidebar, in the page of the PDF and in the preview
contactSidebar(contactInfo) ==
    Field(contactInfo.email) \o Field(contactInfo.phone) \o Field(contactInfo.location)
    \o Field(contactInfo.linkedin) \o Field(contactInfo.github)
    \o Field(contactInfo.portfolio)

\* value ? `<span>${value}</span> • ` : ''
Separated(value) == When(value # <<>>, <<value, BulletSeparator>>)

\* the two contact-info lines of the header in the page of the PDF
contactHeaderHTML(contactInfo) ==
    << Separated(contactInfo.email) \o Separated(contactInfo.phone)
           \o When(contactInfo.location # <<>>, <<contactInfo.location>>),
       Separated(contactInfo.linkedin) \o Separated(contactInfo.github)
           \o When(contactInfo.portfolio # <<>>, <<contactInfo.portfolio>>) >>

\* the two lines of the header in the preview
contactHeaderPreview(contactInfo) ==
    << SelectSeq(<<contactInfo.email, contactInfo.phone, contactInfo.location>>,
                 LAMBDA value : value # <<>>),
       SelectSeq(<<contactInfo.linkedin, contactInfo.github, contactInfo.portfolio>>,
                 LAMBDA value : value # <<>>) >>

\* `${formatDate(startDate)} - ${formatDate(endDate)}`
DateRange(entry) == <<formatDate(entry.startDate), Dash, formatDate(entry.endDate)>>

\* resumeData.experience.map, in the page of the PDF and in the preview
experienceHTML(exp) ==
    << <<exp.company>>, DateRange(exp), <<exp.title>> >>
    \o Field(exp.location) \o BulletElements(exp.bullets)

experiencePreview(exp) ==
    << <<exp.title>>, <<exp.company>>, DateRange(exp) >>
    \o Field(exp.location) \o BulletElements(exp.bullets)

\* `${edu.degree}${edu.field ? `, ${edu.field}` : ''}`
DegreeLine(edu) == <<edu.degree>> \o When(edu.field # <<>>, <<CommaSpace, edu.field>>)

\* resumeData.education.map
educationHTML(edu) ==
    << <<edu.institution>>, DateRange(edu), DegreeLine(edu) >>
    \o Field(edu.location) \o When(edu.gpa # <<>>, << <<GpaLabel, edu.gpa>> >>)

educationPreview(edu) ==
    << <<edu.institution>>, DegreeLine(edu), DateRange(edu) >>
    \o Field(edu.location) \o When(edu.gpa # <<>>, << <<GpaLabel, edu.gpa>> >>)

\* resumeData.skills.categories.map of the sidebar and of the main content
skillsSidebar(category) == << <<category.name>> >> \o BulletElements(category.skills)

skillsMain(category) == << <<category.name, Colon>>, <<Join(category.skills, CommaSpace)>> >>

\* resumeData.projects.map in the page of the PDF: the end date and its
\* separator are left out when there is no end date
projectHTML(project) ==
    << <<project.name>> >>
    \o When(project.startDate # <<>> \/ project.endDate # <<>>,
            << <<formatDate(project.startDate)>>
                  \o When(project.endDate # <<>>, <<Dash, formatDate(project.endDate)>>) >>)
    \o Field(project.description)
    \o BulletElements(project.bullets)

\* resumeData.projects.map in the preview
projectPreview(project) ==
    << <<project.name>> >>
    \o When(project.startDate # <<>> \/ project.endDate # <<>>, <<DateRange(project)>>)
    \o Field(project.description)
    \o BulletElements(project.bullets)

\* resumeData.certifications.map
certificationItem(cert) == << <<cert.name>> >> \o Field(cert.date) \o Field(cert.issuer)

\* section.items.map in the page of the PDF
additionalItemHTML(item) == Field(item.title) \o BulletElements(item.bullets)

\* section.items.map in the preview: the title is always there
additionalItemPreview(item) == << <<item.title>> >> \o BulletElements(item.bullets)

\* array.map
Map(items, Item(_)) == [i \in DOMAIN items |-> Item(items[i])]

\* resumeData.additionalSections.map in the page of the PDF
AdditionalBlocks(area, resumeData) ==
    [i \in 1..Len(resumeData.additionalSections) |->
        Block(area, "additionalSections", resumeData.additionalSections[i].title,
              Map(resumeData.additionalSections[i].items, additionalItemHTML))]

\* section.items is undefined: section.items.map throws a TypeError
generateResumeHTMLThrows(resumeData, template) ==
    /\ template.sections.additionalSections.visible
    /\ \E i \in 1..Len(resumeData.additionalSections) :
          "items" \notin DOMAIN resumeData.additionalSections[i]

\* an additional section in the preview: its content, or its items, or the
\* words "No content"
additionalPreview(section) ==
    IF "content" \in DOMAIN section /\ section.content # <<>>
    THEN << << <<section.content>> >> >>
    ELSE IF "items" \in DOMAIN section /\ Len(section.items) > 0
    THEN Map(section.items, additionalItemPreview)
    ELSE << << <<NoContent>> >> >>

\* resumeData.additionalSections.map in the preview
AdditionalPreviewBlocks(area, resumeData) ==
    [i \in 1..Len(resumeData.additionalSections) |->
        Block(area, "additionalSections", resumeData.additionalSections[i].title,
              additionalPreview(resumeData.additionalSections[i]))]

\* generateResumeHTML with Education placed before Experience
generateResumeHTMLSwapped(resumeData, template) ==
    LET sections == template.sections
    IN IF sections.contactInfo.position = "sidebar"
       THEN \* sidebar layout
            When(sections.contactInfo.visible,
                 <<Block("sidebar", "contactInfo", resumeData.contactInfo.name,
                         <<contactSidebar(resumeData.contactInfo)>>)>>)
            \o When(sections.skills.visible /\ sections.skills.position = "sidebar",
                    <<Block("sidebar", "skills", "Skills",
                            Map(resumeData.skills.categories, skillsSidebar))>>)
            \o When(sections.summary.visible /\ sections.summary.position = "main",
                    <<Block("main", "summary", "Summary", << << <<resumeData.summary>> >> >>)>>)
            \o When(sections.education.visible /\ sections.education.position = "main",
                    <<Block("main", "education", "Education",
                            Map(resumeData.education, educationHTML))>>)
            \o When(sections.experience.visible /\ sections.experience.position = "main",
                    <<Block("main", "experience", "Experience",
                            Map(resumeData.experience, experienceHTML))>>)
            \o When(sections.skills.visible /\ sections.skills.position = "main",
                    <<Block("main", "skills", "Skills",
                            Map(resumeData.skills.categories, skillsMain))>>)
            \o When(sections.projects.visible /\ Len(resumeData.projects) > 0,
                    <<Block("main", "projects", "Projects",
                            Map(resumeData.projects, projectHTML))>>)
            \o When(sections.certifications.visible /\ Len(resumeData.certifications) > 0,
                    <<Block("main", "certifications", "Certifications",
                            Map(resumeData.certifications, certificationItem))>>)
            \o When(sections.additionalSections.visible
                    /\ Len(resumeData.additionalSections) > 0,
                    AdditionalBlocks("main", resumeData))
       ELSE \* header layout
            When(sections.contactInfo.visible,
                 <<Block("header", "contactInfo", resumeData.contactInfo.name,
                         <<contactHeaderHTML(resumeData.contactInfo)>>)>>)
            \o When(sections.summary.visible,
                    <<Block("main", "summary", "Summary", << << <<resumeData.summary>> >> >>)>>)
            \o When(sections.education.visible,
                    <<Block("main", "education", "Education",
                            Map(resumeData.education, educationHTML))>>)
            \o When(sections.experience.visible,
                    <<Block("main", "experience", "Experience",
                            Map(resumeData.experience, experienceHTML))>>)
            \o When(sections.skills.visible,
                    <<Block("main", "skills", "Skills",
                            Map(resumeData.skills.categories, skillsMain))>>)
            \o When(sections.projects.visible /\ Len(resumeData.projects) > 0,
                    <<Block("main", "projects", "Projects",
                            Map(resumeData.projects, projectHTML))>>)
            \o When(sections.certifications.visible /\ Len(resumeData.certifications) > 0,
                    <<Block("main", "certifications", "Certifications",
                            Map(resumeData.certifications, certificationItem))>>)
            \o When(sections.additionalSections.visible
                    /\ Len(resumeData.additionalSections) > 0,
                    AdditionalBlocks("main", resumeData))

\* contentHTML of generateResumeHTML
generateResumeHTML(resumeData, template) ==
    LET sections == template.sections
    IN IF sections.contactInfo.position = "sidebar"
       THEN \* sidebar layout
            When(sections.contactInfo.visible,
                 <<Block("sidebar", "contactInfo", resumeData.contactInfo.name,
                         <<contactSidebar(resumeData.contactInfo)>>)>>)
            \o When(sections.skills.visible /\ sections.skills.position = "sidebar",
                    <<Block("sidebar", "skills", "Skills",
                            Map(resumeData.skills.categories, skillsSidebar))>>)
            \o When(sections.summary.visible /\ sections.summary.position = "main",
                    <<Block("main", "summary", "Summary", << << <<resumeData.summary>> >> >>)>>)
            \o When(sections.experience.visible /\ sections.experience.position = "main",
                    <<Block("main", "experience", "Experience",
                            Map(resumeData.experience, experienceHTML))>>)
            \o When(sections.education.visible /\ sections.education.position = "main",
                    <<Block("main", "education", "Education",
                            Map(resumeData.education, educationHTML))>>)
            \o When(sections.skills.visible /\ sections.skills.position = "main",
                    <<Block("main", "skills", "Skills",
                            Map(resumeData.skills.categories, skillsMain))>>)
            \o When(sections.projects.visible /\ Len(resumeData.projects) > 0,
                    <<Block("main", "projects", "Projects",
                            Map(resumeData.projects, projectHTML))>>)
            \o When(sections.certifications.visible /\ Len(resumeData.certifications) > 0,
                    <<Block("main", "certifications", "Certifications",
                            Map(resumeData.certifications, certificationItem))>>)
            \o When(sections.additionalSections.visible
                    /\ Len(resumeData.additionalSections) > 0,
                    AdditionalBlocks("main", resumeData))
       ELSE \* header layout
            When(sections.contactInfo.visible,
                 <<Block("header", "contactInfo", resumeData.contactInfo.name,
                         <<contactHeaderHTML(resumeData.contactInfo)>>)>>)
            \o When(sections.summary.visible,
                    <<Block("main", "summary", "Summary", << << <<resumeData.summary>> >> >>)>>)
            \o When(sections.experience.visible,
                    <<Block("main", "experience", "Experience",
                            Map(resumeData.experience, experienceHTML))>>)
            \o When(sections.education.visible,
                    <<Block("main", "education", "Education",
                            Map(resumeData.education, educationHTML))>>)
            \o When(sections.skills.visible,
                    <<Block("main", "skills", "Skills",
                            Map(resumeData.skills.categories, skillsMain))>>)
            \o When(sections.projects.visible /\ Len(resumeData.projects) > 0,
                    <<Block("main", "projects", "Projects",
                            Map(resumeData.projects, projectHTML))>>)
            \o When(sections.certifications.visible /\ Len(resumeData.certifications) > 0,
                    <<Block("main", "certifications", "Certifications",
                            Map(resumeData.certifications, certificationItem))>>)
            \o When(sections.additionalSections.visible
                    /\ Len(resumeData.additionalSections) > 0,
                    AdditionalBlocks("main", resumeData))

\* ResumePreview with the Skills block of the sidebar shown for every template
\* that places it there
ResumePreviewSidebarSkills(resumeData, template) ==
    LET sections == template.sections
    IN IF sections.contactInfo.position = "sidebar"
       THEN \* sidebar layout
            When(sections.contactInfo.visible,
                 <<Block("sidebar", "contactInfo", resumeData.contactInfo.name,
                         <<contactSidebar(resumeData.contactInfo)>>)>>)
            \o When(sections.skills.position = "sidebar",
                    <<Block("sidebar", "skills", "Skills",
                            Map(resumeData.skills.categories, skillsSidebar))>>)
            \o When(sections.summary.visible /\ sections.summary.position = "main",
                    <<Block("main", "summary", "Summary", << << <<resumeData.summary>> >> >>)>>)
            \o When(sections.experience.visible /\ sections.experience.position = "main",
                    <<Block("main", "experience", "Experience",
                            Map(resumeData.experience, experiencePreview))>>)
            \o When(sections.education.visible /\ sections.education.position = "main",
                    <<Block("main", "education", "Education",
                            Map(resumeData.education, educationPreview))>>)
            \o When(sections.skills.visible /\ sections.skills.position = "main",
                    <<Block("main", "skills", "Skills",
                            Map(resumeData.skills.categories, skillsMain))>>)
            \o When(sections.projects.visible /\ Len(resumeData.projects) > 0,
                    <<Block("main", "projects", "Projects",
                            Map(resumeData.projects, projectPreview))>>)
            \o When(sections.certifications.visible /\ Len(resumeData.certifications) > 0,
                    <<Block("main", "certifications", "Certifications",
                            Map(resumeData.certifications, certificationItem))>>)
            \o When(sections.additionalSections.visible
                    /\ Len(resumeData.additionalSections) > 0,
                    AdditionalPreviewBlocks("main", resumeData))
       ELSE \* header layout
            When(sections.contactInfo.visible,
                 <<Block("header", "contactInfo", resumeData.contactInfo.name,
                         <<contactHeaderPreview(resumeData.contactInfo)>>)>>)
            \o When(sections.summary.visible,
                    <<Block("main", "summary", "Summary", << << <<resumeData.summary>> >> >>)>>)
            \o When(sections.experience.visible,
                    <<Block("main", "experience", "Experience",
                            Map(resumeData.experience, experiencePreview))>>)
            \o When(sections.education.visible,
                    <<Block("main", "education", "Education",
                            Map(resumeData.education, educationPreview))>>)
            \o When(sections.skills.visible,
                    <<Block("main", "skills", "Skills",
                            Map(resumeData.skills.categories, skillsMain))>>)
            \o When(sections.projects.visible /\ Len(resumeData.projects) > 0,
                    <<Block("main", "projects", "Projects",
                            Map(resumeData.projects, projectPreview))>>)
            \o When(sections.certifications.visible /\ Len(resumeData.certifications) > 0,
                    <<Block("main", "certifications", "Certifications",
                            Map(resumeData.certifications, certificationItem))>>)
            \o When(sections.additionalSections.visible
                    /\ Len(resumeData.additionalSections) > 0,
                    AdditionalPreviewBlocks("main", resumeData))

\* the element that ResumePreview returns
ResumePreview(resumeData, template) ==
    LET sections == template.sections
    IN IF sections.contactInfo.position = "sidebar"
       THEN \* sidebar layout
            When(sections.contactInfo.visible,
                 <<Block("sidebar", "contactInfo", resumeData.contactInfo.name,
                         <<contactSidebar(resumeData.contactInfo)>>)>>)
            \o When(sections.skills.visible /\ sections.skills.position = "sidebar",
                    <<Block("sidebar", "skills", "Skills",
                            Map(resumeData.skills.categories, skillsSidebar))>>)
            \o When(sections.summary.visible /\ sections.summary.position = "main",
                    <<Block("main", "summary", "Summary", << << <<resumeData.summary>> >> >>)>>)
            \o When(sections.experience.visible /\ sections.experience.position = "main",
                    <<Block("main", "experience", "Experience",
                            Map(resumeData.experience, experiencePreview))>>)
            \o When(sections.education.visible /\ sections.education.position = "main",
                    <<Block("main", "education", "Education",
                            Map(resumeData.education, educationPreview))>>)
            \o When(sections.skills.visible /\ sections.skills.position = "main",
                    <<Block("main", "skills", "Skills",
                            Map(resumeData.skills.categories, skillsMain))>>)
            \o When(sections.projects.visible /\ Len(resumeData.projects) > 0,
                    <<Block("main", "projects", "Projects",
                            Map(resumeData.projects, projectPreview))>>)
            \o When(sections.certifications.visible /\ Len(resumeData.certifications) > 0,
                    <<Block("main", "certifications", "Certifications",
                            Map(resumeData.certifications, certificationItem))>>)
            \o When(sections.additionalSections.visible
                    /\ Len(resumeData.additionalSections) > 0,
                    AdditionalPreviewBlocks("main", resumeData))
       ELSE \* header layout
            When(sections.contactInfo.visible,
                 <<Block("header", "contactInfo", resumeData.contactInfo.name,
                         <<contactHeaderPreview(resumeData.contactInfo)>>)>>)
            \o When(sections.summary.visible,
                    <<Block("main", "summary", "Summary", << << <<resumeData.summary>> >> >>)>>)
            \o When(sections.experience.visible,
                    <<Block("main", "experience", "Experience",
                            Map(resumeData.experience, experiencePreview))>>)
            \o When(sections.education.visible,
                    <<Block("main", "education", "Education",
                            Map(resumeData.education, educationPreview))>>)
            \o When(sections.skills.visible,
                    <<Block("main", "skills", "Skills",
                            Map(resumeData.skills.categories, skillsMain))>>)
            \o When(sections.projects.visible /\ Len(resumeData.projects) > 0,
                    <<Block("main", "projects", "Projects",
                            Map(resumeData.projects, projectPreview))>>)
            \o When(sections.certifications.visible /\ Len(resumeData.certifications) > 0,
                    <<Block("main", "certifications", "Certifications",
                            Map(resumeData.certifications, certificationItem))>>)
            \o When(sections.additionalSections.visible
                    /\ Len(resumeData.additionalSections) > 0,
                    AdditionalPreviewBlocks("main", resumeData))

SectionSetting(visible, position) == [visible |-> visible, position |-> position]

\* ResumeTemplate.sections
Templates ==
    {[id |-> "modern",
      sections |-> [contactInfo |-> SectionSetting(TRUE, layout),
                    summary |-> SectionSetting(summaryVisible, summaryPosition),
                    experience |-> SectionSetting(experienceVisible, "main"),
                    education |-> SectionSetting(educationVisible, "main"),
                    skills |-> SectionSetting(skillsVisible, skillsPosition),
                    projects |-> SectionSetting(TRUE, "main"),
                    certifications |-> SectionSetting(TRUE, "main"),
                    additionalSections |-> SectionSetting(TRUE, "main")]] :
        layout \in {"sidebar", "header"},
        summaryVisible \in BOOLEAN, summaryPosition \in {"header", "main"},
        experienceVisible \in BOOLEAN, educationVisible \in BOOLEAN,
        skillsVisible \in BOOLEAN, skillsPosition \in {"header", "sidebar", "main"}}

\* the resume texts of the editor: the empty text, texts of white space, the
\* source texts
ExportTexts == {<<>>} \cup BlankTexts \cup {SourceText(kind) : kind \in SourceKinds}

\* page.pdf of puppeteer returns the PDF, or puppeteer throws
PdfEngineOutcomes == {"ok", "fails"}

\* POST of the export-resume-pdf route without the test of resumeText
exportResumePdfUnchecked(resumeText, template, engine) ==
    Apply(LAMBDA resumeData :
              IF generateResumeHTMLThrows(resumeData, template) \/ engine = "fails"
              THEN JsonResponse(500, [error |-> "Failed to generate PDF"])
              ELSE JsonResponse(200, [pdf |-> generateResumeHTML(resumeData, template)]),
          parseResumeText(resumeText))

\* POST of the export-resume-pdf route; template is getTemplateById(templateId)
exportResumePdf(resumeText, template, engine) ==
    IF resumeText = <<>>
    THEN JsonResponse(400, [error |-> "Resume text is required"])
    ELSE Apply(LAMBDA resumeData :
                   IF generateResumeHTMLThrows(resumeData, template) \/ engine = "fails"
                   THEN JsonResponse(500, [error |-> "Failed to generate PDF"])
                   ELSE JsonResponse(200,
                                     [pdf |-> generateResumeHTML(resumeData, template)]),
               parseResumeText(resumeText))

RenderInit ==
    /\ rnText \in ExportTexts
    /\ rnData = parseResumeText(rnText)
    /\ rnTemplate \in Templates
    /\ rnOut = <<>>
    /\ rnResponse = Null
    /\ rnEngine = "none"
    /\ rnPc = "init"
    /\ RewriteIdle /\ ExtractIdle /\ OptimizeIdle /\ EditIdle /\ PdfIdle /\ ViewIdle

\* the export-resume-pdf route answers a request with the text of the editor
ExportPdf ==
    /\ rnPc = "init"
    /\ \E engine \in PdfEngineOutcomes :
          /\ rnEngine' = engine
          /\ rnResponse' = exportResumePdf(rnText, rnTemplate, engine)
          /\ rnOut' = IF rnResponse'.status = 200 THEN rnResponse'.data.pdf ELSE <<>>
          /\ rnPc' = CASE rnResponse'.status = 200 -> "exported"
                       [] rnResponse'.status = 400 -> "rejected"
                       [] OTHER -> "failed"
    /\ UNCHANGED <<rnText, rnData, rnTemplate, rwVars, exVars, opVars, edVars, pdVars, tmVars>>

\* the editor shows the preview of its resume data
ShowPreview ==
    /\ rnPc = "init"
    /\ rnOut' = ResumePreview(rnData, rnTemplate)
    /\ rnPc' = "previewed"
    /\ UNCHANGED <<rnText, rnData, rnTemplate, rnResponse, rnEngine, rwVars, exVars, opVars, edVars, pdVars, tmVars>>

RenderNext == ExportPdf \/ ShowPreview

SpecRender == RenderInit /\ [][RenderNext]_vars

Rendered == rnPc \in {"exported", "previewed"}

\* the header sections of the page in document order, and those of the source
\* text that the page shows
RenderedOrder ==
    SelectSeq([i \in 1..Len(rnOut) |-> rnOut[i].section], LAMBDA s : Has(rnData.headers, s))

SourceOrder ==
    SelectSeq(rnData.headers, LAMBDA s : \E i \in 1..Len(rnOut) : rnOut[i].section = s)

SectionRank(section) ==
    CASE section = "contactInfo" -> 0
      [] section = "summary" -> 1
      [] section = "experience" -> 2
      [] section = "education" -> 3
      [] section = "skills" -> 4
      [] section = "projects" -> 5
      [] section = "certifications" -> 6
      [] section = "additionalSections" -> 7

HiddenSkillsNotRendered ==
    (Rendered /\ ~rnTemplate.sections.skills.visible)
        => \A i \in 1..Len(rnOut) : rnOut[i].section # "skills"

\* a preview in the sidebar layout of a document with two skill categories
\* under a template that hides the skills and places them in the sidebar
HiddenSkillsPreviewed ==
    /\ rnPc = "previewed"
    /\ ~rnTemplate.sections.skills.visible
    /\ rnTemplate.sections.skills.position = "sidebar"
    /\ rnTemplate.sections.contactInfo.position = "sidebar"
    /\ Len(rnData.skills.categories) = MaxCategories
    /\ Len(rnOut) > 0

\* a request whose text is empty or white space only has been answered
BlankTextAnswered ==
    rnPc \in {"exported", "rejected", "failed"} /\ Trim(rnText) = <<>>

\* C14 as stated: a request with an empty text or a text of white space is
\* answered with the rendering of the document with empty collections, never
\* with an error status, as long as the PDF engine works
BlankTextRendered ==
    (BlankTextAnswered /\ rnPc # "failed")
        => /\ rnResponse.status = 200
           /\ rnOut = generateResumeHTML(EmptyDocument, rnTemplate)

\* C14 as amended: a request with the empty text is answered with status 400
\* and the error 'Resume text is required', and nothing is rendered; a request
\* with a non-empty text of white space is answered with the rendering of the
\* document with empty collections, or with status 500 when the PDF engine
\* fails
ExportOfBlankText ==
    BlankTextAnswered =>
        IF rnText = <<>>
        THEN /\ rnResponse = JsonResponse(400, [error |-> "Resume text is required"])
             /\ rnOut = <<>>
        ELSE \/ /\ rnResponse.status = 200
                /\ rnOut = generateResumeHTML(EmptyDocument, rnTemplate)
             \/ /\ rnResponse = JsonResponse(500, [error |-> "Failed to generate PDF"])
                /\ rnOut = <<>>

\* the empty text has been rejected
EmptyTextRejected == rnPc = "rejected" /\ rnText = <<>>

\* the sections that the renderers show whatever their content
PlacedSections == {"summary", "experience", "education", "skills"}

\* the blocks of the page that show section
BlocksOf(section) == {i \in 1..Len(rnOut) : rnOut[i].section = section}

\* C17: every section that the template makes visible is on the rendered page
\* exactly once, in the area that the template names as its position
VisibleInPlace ==
    Rendered =>
        \A section \in PlacedSections :
            rnTemplate.sections[section].visible
                => /\ Cardinality(BlocksOf(section)) = 1
                   /\ \A i \in BlocksOf(section) :
                         rnOut[i].area = rnTemplate.sections[section].position

\* the elements of the rendered page
RenderedElements ==
    {rnOut[i].items[j][k] : <<i, j, k>> \in
        {<<i, j, k>> \in (1..Len(rnOut)) \X (1..8) \X (1..8) :
            j <= Len(rnOut[i].items) /\ k <= Len(rnOut[i].items[j])}}

\* the element shows nothing, or a piece of it is empty, or it begins or ends
\* with a separator
IsPlaceholder(element) ==
    \/ element = <<>>
    \/ \E p \in 1..Len(element) : element[p] = <<>>
    \/ element[1] \in {Dash, BulletSeparator}
    \/ element[Len(element)] \in {Dash, BulletSeparator}

\* C18: a date range of the rendered page reads "<start> - <end>" with the
\* word Present as it is, and a missing optional field leaves nothing on the
\* page: no empty element, no empty piece and no separator without a value at
\* its side.  The pages are those of the source texts, whose documents have
\* all fields that are not optional
EmptyFieldsOmitted ==
    (Rendered /\ Trim(rnText) # <<>>) =>
        /\ \A element \in RenderedElements : ~IsPlaceholder(element)
        /\ \A element \in RenderedElements :
              (Len(element) = 3 /\ element[2] = Dash /\ element[1] = Year2020)
                  => element[3] \in {Year2021, Present}

\* C19: the renderer returns a page for every document and every template,
\* also for a document whose additional section has a content and no items:
\* a request with a non-empty text for which the PDF engine works is answered
\* with the page of the document
RenderingTotal ==
    (rnPc \in {"exported", "failed"} /\ rnText # <<>> /\ rnEngine = "ok")
        => /\ rnResponse.status = 200
           /\ Len(rnOut) > 0
-----------------------------------------------------------------------------
(* The texts of the resume editor *)

\* the values that handleAddItem and handleAddDetail give to what they add
NewCompany ==
    <<"N", "e", "w", " ", "C", "o", "m", "p", "a", "n", "y">>

PositionTitle ==
    <<"P", "o", "s", "i", "t", "i", "o", "n", " ", "T", "i", "t", "l", "e">>

Accomplishment ==
    <<"A", "c", "c", "o", "m", "p", "l", "i", "s", "h", "m", "e", "n", "t", " ", "o", "r", " ", "r", "e", "s", "p", "o", "n", "s", "i", "b", "i", "l", "i", "t", "y">>

UniversityName ==
    <<"U", "n", "i", "v", "e", "r", "s", "i", "t", "y", "/", "C", "o", "l", "l", "e", "g", "e", " ", "N", "a", "m", "e">>

DegreeType ==
    <<"D", "e", "g", "r", "e", "e", " ", "T", "y", "p", "e">>

FieldOfStudyDefault ==
    <<"F", "i", "e", "l", "d", " ", "o", "f", " ", "S", "t", "u", "d", "y">>

NewCategory ==
    <<"N", "e", "w", " ", "C", "a", "t", "e", "g", "o", "r", "y">>

NewSkill ==
    <<"N", "e", "w", " ", "S", "k", "i", "l", "l">>

NewProjectName ==
    <<"P", "r", "o", "j", "e", "c", "t", " ", "N", "a", "m", "e">>

ProjectDetail ==
    <<"P", "r", "o", "j", "e", "c", "t", " ", "d", "e", "t", "a", "i", "l", " ", "o", "r", " ", "a", "c", "h", "i", "e", "v", "e", "m", "e", "n", "t">>

NewCertificationName ==
    <<"C", "e", "r", "t", "i", "f", "i", "c", "a", "t", "i", "o", "n", " ", "N", "a", "m", "e">>

IssuingOrganization ==
    <<"I", "s", "s", "u", "i", "n", "g", " ", "O", "r", "g", "a", "n", "i", "z", "a", "t", "i", "o", "n">>

NewBulletPoint ==
    <<"N", "e", "w", " ", "b", "u", "l", "l", "e", "t", " ", "p", "o", "i", "n", "t">>

NewProjectDetail ==
    <<"N", "e", "w", " ", "p", "r", "o", "j", "e", "c", "t", " ", "d", "e", "t", "a", "i", "l">>

\* further values of the document that the editor is given
SecondCompany ==
    <<"I", "n", "i", "t", "e", "c", "h">>

SecondBullet ==
    <<"L", "e", "d", " ", "a", " ", "t", "e", "a", "m">>

SecondCategory ==
    <<"T", "o", "o", "l", "s">>

SecondSkill ==
    <<"G", "i", "t">>

ThirdSkill ==
    <<"G", "o">>

\* what the user types into an input, and into the text area of the skills
TypedValue ==
    <<"G", "l", "o", "b", "e", "x">>

TextAreaValues ==
    {<<"G", "o", "\n", "R", "u", "s", "t">>,
     <<"3", "D", "\n", "C", "A", "D">>,
     <<"1", " ", "G", "o">>}

-----------------------------------------------------------------------------
(* The resume editor.  The objects of the document are in a heap: a        *)
(* document object holds the summary and the references of its contact     *)
(* object, of its skills object and of the arrays of its sections; an      *)
(* array holds its elements, the references of entries or texts; an entry  *)
(* holds its fields and the reference of the array of its bullets or       *)
(* skills (0 when it has none).  A spread copies one object or one array,  *)
(* an assignment to a property changes the object in the heap.             *)

\* `{ ...object }` and `[...array]`: the heap with a copy of heap[ref] at its end
Spread(heap, ref) == Append(heap, heap[ref])

\* a new object in the heap; its reference is the length of the new heap
New(heap, object) == Append(heap, object)

ArrayOf(items) == [kind |-> "array", items |-> items]

EntryOf(fields, list) == [kind |-> "entry", fields |-> fields, list |-> list]

\* the sections of the document that are lists of entries
ListSections == {"experience", "education", "projects", "certifications"}

\* the reference of the array of a section: resumeData.skills.categories, or
\* resumeData[section]
ItemsRef(heap, doc, section) ==
    IF section = "skills" THEN heap[heap[doc].skills].categories
    ELSE heap[doc].lists[section]

\* updatedData.skills.categories = array, or updatedData[section] = array
SetItems(heap, doc, section, array) ==
    IF section = "skills" THEN [heap EXCEPT ![heap[doc].skills].categories = array]
    ELSE [heap EXCEPT ![doc].lists[section] = array]

\* the elements of an array of texts, and of an array of entries with what
\* the entries hold
TextsAt(heap, ref) == IF ref = 0 THEN <<>> ELSE heap[ref].items

EntriesAt(heap, ref) ==
    [i \in 1..Len(heap[ref].items) |->
        [fields |-> heap[heap[ref].items[i]].fields,
         list |-> TextsAt(heap, heap[heap[ref].items[i]].list)]]

\* the document that the object at doc holds, with all that it refers to
DocumentAt(heap, doc) ==
    [contactInfo |-> heap[heap[doc].contactInfo].fields,
     summary |-> heap[doc].summary,
     experience |-> EntriesAt(heap, heap[doc].lists.experience),
     education |-> EntriesAt(heap, heap[doc].lists.education),
     skills |-> EntriesAt(heap, heap[heap[doc].skills].categories),
     projects |-> EntriesAt(heap, heap[doc].lists.projects),
     certifications |-> EntriesAt(heap, heap[doc].lists.certifications)]

\* the value of a run of decimal digits
RECURSIVE DecimalValue(_)
DecimalValue(digits) ==
    IF digits = <<>> THEN 0
    ELSE 10 * DecimalValue(SubSeq(digits, 1, Len(digits) - 1))
         + (CHOOSE d \in 0..9 : DigitChars[d + 1] = digits[Len(digits)])

\* parseInt(text, 10): the number that the digits at the start of the text
\* spell, after white space and a sign; NaN when there is no digit there
parseInt(text) ==
    LET start == SpacesFrom(text, 1) + 1
        signed == At(text, start) \in {"+", "-"}
        first == IF signed THEN start + 1 ELSE start
        last == RunEnd(IsDigit, text, first)
    IN IF ~IsDigit(At(text, first)) THEN [nan |-> TRUE, value |-> 0]
       ELSE [nan |-> FALSE,
             value |-> (IF At(text, start) = "-" THEN -1 ELSE 1)
                       * DecimalValue(SubSeq(text, first, last))]

\* an element of an array that was never assigned
Hole == <<"undefined">>

\* array[key] = value, where key is a number or NaN: an index inside the array
\* replaces the element, an index behind its end lengthens the array and
\* leaves holes, and NaN or a negative number names a property that is no
\* element
AssignElement(items, key, value) ==
    IF key.nan \/ key.value < 0 THEN items
    ELSE [i \in 1..Max({Len(items), key.value + 1}) |->
             IF i = key.value + 1 THEN value
             ELSE IF i <= Len(items) THEN items[i]
             ELSE Hole]

\* a handler has called onUpdateResumeData(updatedData)
Updated(heap, updatedData) == [heap |-> heap, doc |-> updatedData]

\* handleInputChange.  index counts from 0; nestedField is Null where the
\* caller passes none
handleInputChange(heap, resumeData, value, section, field, index, nestedField) ==
    LET h1 == Spread(heap, resumeData)
        updatedData == Len(h1)
    IN IF section = "contactInfo"
       THEN LET h2 == New(h1, [h1[h1[updatedData].contactInfo] EXCEPT
                                   !.fields[field] = value])
            IN Updated([h2 EXCEPT ![updatedData].contactInfo = Len(h2)], updatedData)
       ELSE IF section = "summary"
       THEN Updated([h1 EXCEPT ![updatedData].summary = value], updatedData)
       ELSE IF section \in ListSections
       THEN LET h2 == Spread(h1, ItemsRef(h1, updatedData, section))
                entries == Len(h2)
                entry == h2[entries].items[index + 1]
            IN IF nestedField # Null
               THEN LET h3 == New(h2, [h2[entry] EXCEPT !.fields[nestedField.name] = value])
                    IN Updated(SetItems([h3 EXCEPT ![entries].items[index + 1] = Len(h3)],
                                        updatedData, section, entries),
                               updatedData)
               ELSE Updated(SetItems([h2 EXCEPT ![entry].fields[field] = value],
                                     updatedData, section, entries),
                            updatedData)
       ELSE IF section = "skills"
       THEN LET h2 == Spread(h1, ItemsRef(h1, updatedData, section))
                categories == Len(h2)
                category == h2[categories].items[index + 1]
            IN IF field = "name"
               THEN Updated(SetItems([h2 EXCEPT ![category].fields.name = value],
                                     updatedData, section, categories),
                            updatedData)
               ELSE IF field = "skill" /\ nestedField # Null
               THEN LET h3 == Spread(h2, h2[category].list)
                        skills == Len(h3)
                        h4 == [h3 EXCEPT
                                  ![skills].items =
                                      AssignElement(@, parseInt(nestedField.name), value),
                                  ![category].list = skills]
                    IN Updated(SetItems(h4, updatedData, section, categories), updatedData)
               ELSE Updated(SetItems(h2, updatedData, section, categories), updatedData)
       ELSE Updated(h1, updatedData)

\* the entry that handleAddItem adds to a section, and its bullets
NewEntryFields(section, id) ==
    CASE section = "experience" ->
            [id |-> id, company |-> NewCompany, title |-> PositionTitle,
             startDate |-> <<>>, endDate |-> Present, location |-> <<>>]
      [] section = "education" ->
            [id |-> id, institution |-> UniversityName, degree |-> DegreeType,
             field |-> FieldOfStudyDefault, startDate |-> <<>>, endDate |-> <<>>,
             location |-> <<>>, gpa |-> <<>>]
      [] section = "skills" -> [name |-> NewCategory]
      [] section = "projects" ->
            [id |-> id, name |-> NewProjectName, description |-> <<>>,
             startDate |-> <<>>, endDate |-> <<>>]
      [] section = "certifications" ->
            [id |-> id, name |-> NewCertificationName, issuer |-> IssuingOrganization,
             date |-> <<>>, url |-> <<>>]

NewEntryList(section) ==
    CASE section = "experience" -> <<Accomplishment>>
      [] section = "skills" -> <<NewSkill>>
      [] section = "projects" -> <<ProjectDetail>>
      [] OTHER -> <<>>

\* the sections whose entries have a list of bullets or skills
DetailSections == {"experience", "skills", "projects"}

\* handleAddItem; id is what uuidv4() returns
handleAddItem(heap, resumeData, section, id) ==
    LET h1 == Spread(heap, resumeData)
        updatedData == Len(h1)
        h2 == IF section \in DetailSections
              THEN New(h1, ArrayOf(NewEntryList(section))) ELSE h1
        h3 == New(h2, EntryOf(NewEntryFields(section, id),
                              IF section \in DetailSections THEN Len(h2) ELSE 0))
        newEntry == Len(h3)
    IN IF section = "skills"
       THEN \* updatedData.skills.categories.push(newCategory)
            Updated([h3 EXCEPT ![ItemsRef(h3, updatedData, section)].items =
                                   Append(@, newEntry)],
                    updatedData)
       ELSE LET h4 == New(h3, ArrayOf(Append(h3[ItemsRef(h3, updatedData, section)].items,
                                             newEntry)))
            IN Updated(SetItems(h4, updatedData, section, Len(h4)), updatedData)

\* array.splice(index, 1)
Splice(items, index) ==
    IF index < 0 \/ index >= Len(items) THEN items
    ELSE SubSeq(items, 1, index) \o SubSeq(items, index + 2, Len(items))

\* handleRemoveItem
handleRemoveItem(heap, resumeData, section, index) ==
    LET h1 == Spread(heap, resumeData)
        updatedData == Len(h1)
        h2 == Spread(h1, ItemsRef(h1, updatedData, section))
        entries == Len(h2)
    IN IF section = "skills" /\ Len(h2[entries].items) <= 1
       THEN Updated(h2, updatedData)
       ELSE Updated(SetItems([h2 EXCEPT ![entries].items = Splice(@, index)],
                             updatedData, section, entries),
                    updatedData)

\* what handleAddDetail adds to an entry of a section
NewDetail(section) ==
    CASE section = "experience" -> NewBulletPoint
      [] section = "skills" -> NewSkill
      [] section = "projects" -> NewProjectDetail

\* handleAddDetail
handleAddDetail(heap, resumeData, section, index) ==
    LET h1 == Spread(heap, resumeData)
        updatedData == Len(h1)
    IN IF section \notin DetailSections THEN Updated(h1, updatedData)
       ELSE LET h2 == Spread(h1, ItemsRef(h1, updatedData, section))
                entries == Len(h2)
                entry == h2[entries].items[index + 1]
                h3 == New(h2, ArrayOf(Append(h2[h2[entry].list].items, NewDetail(section))))
            IN Updated(SetItems([h3 EXCEPT ![entry].list = Len(h3)],
                                updatedData, section, entries),
                       updatedData)

\* handleDetailChange
handleDetailChange(heap, resumeData, section, itemIndex, detailIndex, value) ==
    LET h1 == Spread(heap, resumeData)
        updatedData == Len(h1)
    IN IF section \notin DetailSections THEN Updated(h1, updatedData)
       ELSE LET h2 == Spread(h1, ItemsRef(h1, updatedData, section))
                entries == Len(h2)
                entry == h2[entries].items[itemIndex + 1]
                h3 == Spread(h2, h2[entry].list)
                details == Len(h3)
            IN Updated(SetItems([h3 EXCEPT
                                    ![details].items =
                                        AssignElement(@, [nan |-> FALSE, value |-> detailIndex],
                                                      value),
                                    ![entry].list = details],
                                updatedData, section, entries),
                       updatedData)

\* handleRemoveDetail
\* handleRemoveDetail without its tests of the length
handleRemoveDetailAlways(heap, resumeData, section, itemIndex, detailIndex) ==
    LET h1 == Spread(heap, resumeData)
        updatedData == Len(h1)
    IN IF section \notin DetailSections THEN Updated(h1, updatedData)
       ELSE LET h2 == Spread(h1, ItemsRef(h1, updatedData, section))
                entries == Len(h2)
                entry == h2[entries].items[itemIndex + 1]
                h3 == Spread(h2, h2[entry].list)
                details == Len(h3)
            IN Updated(SetItems([h3 EXCEPT ![details].items = Splice(@, detailIndex),
                                           ![entry].list = details],
                                updatedData, section, entries),
                       updatedData)

handleRemoveDetail(heap, resumeData, section, itemIndex, detailIndex) ==
    LET h1 == Spread(heap, resumeData)
        updatedData == Len(h1)
    IN IF section \notin DetailSections THEN Updated(h1, updatedData)
       ELSE LET h2 == Spread(h1, ItemsRef(h1, updatedData, section))
                entries == Len(h2)
                entry == h2[entries].items[itemIndex + 1]
                h3 == Spread(h2, h2[entry].list)
                details == Len(h3)
            IN IF Len(h3[details].items) > 1
               THEN Updated(SetItems([h3 EXCEPT ![details].items = Splice(@, detailIndex),
                                                ![entry].list = details],
                                     updatedData, section, entries),
                            updatedData)
               ELSE Updated(h3, updatedData)

\* handleMoveItem that writes the moved item over its neighbour
handleMoveItemOver(heap, resumeData, section, index, direction) ==
    IF \/ direction = "up" /\ index = 0
       \/ direction = "down"
          /\ index = Len(heap[ItemsRef(heap, resumeData, section)].items) - 1
    THEN Updated(heap, resumeData)
    ELSE LET h1 == Spread(heap, resumeData)
             updatedData == Len(h1)
             newIndex == IF direction = "up" THEN index - 1 ELSE index + 1
             h2 == Spread(h1, ItemsRef(h1, updatedData, section))
             entries == Len(h2)
             items == h2[entries].items
         IN Updated(SetItems([h2 EXCEPT ![entries].items =
                                           [items EXCEPT ![newIndex + 1] = items[index + 1]]],
                             updatedData, section, entries),
                    updatedData)

\* handleMoveItem: at the first or last place nothing is done and
\* onUpdateResumeData is not called
handleMoveItem(heap, resumeData, section, index, direction) ==
    IF \/ direction = "up" /\ index = 0
       \/ direction = "down"
          /\ index = Len(heap[ItemsRef(heap, resumeData, section)].items) - 1
    THEN Updated(heap, resumeData)
    ELSE LET h1 == Spread(heap, resumeData)
             updatedData == Len(h1)
             newIndex == IF direction = "up" THEN index - 1 ELSE index + 1
             h2 == Spread(h1, ItemsRef(h1, updatedData, section))
             entries == Len(h2)
             items == h2[entries].items
         IN Updated(SetItems([h2 EXCEPT ![entries].items =
                                           [items EXCEPT ![index + 1] = items[newIndex + 1],
                                                         ![newIndex + 1] = items[index + 1]]],
                             updatedData, section, entries),
                    updatedData)
-----------------------------------------------------------------------------
(* The editing session: the resume editor is given a document, and every   *)
(* call of onUpdateResumeData gives it the document of the call            *)

MaxEdits == 2

\* the heap of the document that the editor is given first
InitialHeap ==
    << [kind |-> "contact",
        fields |-> [name |-> SummaryText, email |-> Email, phone |-> Phone,
                    location |-> City, linkedin |-> LinkedIn, github |-> GitHub,
                    portfolio |-> Portfolio]],
       ArrayOf(<<BulletText>>),
       EntryOf([id |-> <<"a">>, company |-> Company, title |-> JobTitle,
                startDate |-> Year2020, endDate |-> Present, location |-> City], 2),
       ArrayOf(<<BulletText, SecondBullet>>),
       EntryOf([id |-> <<"b">>, company |-> SecondCompany, title |-> JobTitle,
                startDate |-> Year2020, endDate |-> Year2021, location |-> <<>>], 4),
       ArrayOf(<<3, 5>>),
       EntryOf([id |-> <<"c">>, institution |-> Institution, degree |-> Degree,
                field |-> FieldOfStudy, startDate |-> Year2020, endDate |-> Year2021,
                location |-> City, gpa |-> Gpa], 0),
       ArrayOf(<<7>>),
       ArrayOf(<<SkillName>>),
       EntryOf([name |-> CategoryName], 9),
       ArrayOf(<<SecondSkill, ThirdSkill>>),
       EntryOf([name |-> SecondCategory], 11),
       ArrayOf(<<10, 12>>),
       [kind |-> "skills", categories |-> 13],
       ArrayOf(<<BulletText>>),
       EntryOf([id |-> <<"d">>, name |-> ProjectName, description |-> ProjectDescription,
                startDate |-> Year2020, endDate |-> Year2021], 15),
       ArrayOf(<<16>>),
       EntryOf([id |-> <<"e">>, name |-> CertificationName, issuer |-> Issuer,
                date |-> Year2021, url |-> <<>>], 0),
       ArrayOf(<<18>>),
       [kind |-> "document", contactInfo |-> 1, summary |-> SummaryText, skills |-> 14,
        lists |-> [experience |-> 6, education |-> 8, projects |-> 17,
                   certifications |-> 19]] >>

EditInit ==
    /\ edHeap = InitialHeap
    /\ edDoc = Len(InitialHeap)
    /\ edPrev = 0
    /\ edPrevValue = Null
    /\ edLast = Null
    /\ edCount = 0
    /\ RewriteIdle /\ ExtractIdle /\ OptimizeIdle /\ RenderIdle /\ PdfIdle /\ ViewIdle

\* the number of entries of a section of the editor's document, and the number
\* of bullets or skills of its entry at index
ItemCount(section) == Len(edHeap[ItemsRef(edHeap, edDoc, section)].items)

DetailCount(section, index) ==
    Len(TextsAt(edHeap, edHeap[edHeap[ItemsRef(edHeap, edDoc, section)].items[index + 1]].list))

\* the operation of the editor and its arguments
Operation(op, section, index, detail, name, value) ==
    [op |-> op, section |-> section, index |-> index, detail |-> detail,
     name |-> name, value |-> value]

\* the handler has run: the editor is given the document of its call of
\* onUpdateResumeData
Edited(result, operation) ==
    /\ edHeap' = result.heap
    /\ edDoc' = result.doc
    /\ edPrev' = edDoc
    /\ edPrevValue' = DocumentAt(edHeap, edDoc)
    /\ edLast' = operation
    /\ edCount' = edCount + 1
    /\ UNCHANGED <<rwVars, exVars, opVars, rnVars, pdVars, tmVars>>

\* the inputs whose onChange calls handleInputChange with a field of an entry
EntryFields ==
    [experience |-> {"company", "location"}, education |-> {"institution", "gpa"},
     skills |-> {"name"}, projects |-> {"name"}, certifications |-> {"name"}]

\* the user types into an input of the contact information or of the summary
ChangeContact ==
    /\ edCount < MaxEdits
    /\ \E field \in {"name", "email"} :
           Edited(handleInputChange(edHeap, edDoc, TypedValue, "contactInfo", field, 0, Null),
                  Operation("input", "contactInfo", 0, 0, field, TypedValue))

ChangeSummary ==
    /\ edCount < MaxEdits
    /\ Edited(handleInputChange(edHeap, edDoc, TypedValue, "summary", "text", 0, Null),
              Operation("input", "summary", 0, 0, "text", TypedValue))

\* the user types into an input of an entry
ChangeEntry ==
    /\ edCount < MaxEdits
    /\ \E section \in DOMAIN EntryFields :
           \E index \in 0..(ItemCount(section) - 1), field \in EntryFields[section] :
               Edited(handleInputChange(edHeap, edDoc, TypedValue, section, field, index, Null),
                      Operation("input", section, index, 0, field, TypedValue))

\* the user changes the text area of the skills of a category: onChange
\* splits the value into lines and hands the first line as nestedField
ChangeSkillsText ==
    /\ edCount < MaxEdits
    /\ \E index \in 0..(ItemCount("skills") - 1), value \in TextAreaValues :
           LET skills == Split(value, NL)
           IN Edited(handleInputChange(edHeap, edDoc, value, "skills", "skill", index,
                                       [name |-> skills[1]]),
                     Operation("skillsText", "skills", index, 0, "skill", value))

AddItem ==
    /\ edCount < MaxEdits
    /\ \E section \in DOMAIN EntryFields :
           Edited(handleAddItem(edHeap, edDoc, section, ToDecimal(edCount + 1)),
                  Operation("addItem", section, 0, 0, "", <<>>))

RemoveItem ==
    /\ edCount < MaxEdits
    /\ \E section \in DOMAIN EntryFields :
           \E index \in 0..(ItemCount(section) - 1) :
               Edited(handleRemoveItem(edHeap, edDoc, section, index),
                      Operation("removeItem", section, index, 0, "", <<>>))

AddDetail ==
    /\ edCount < MaxEdits
    /\ \E section \in DetailSections :
           \E index \in 0..(ItemCount(section) - 1) :
               Edited(handleAddDetail(edHeap, edDoc, section, index),
                      Operation("addDetail", section, index, 0, "", <<>>))

ChangeDetail ==
    /\ edCount < MaxEdits
    /\ \E section \in DetailSections :
           \E index \in 0..(ItemCount(section) - 1) :
               \E detail \in 0..(DetailCount(section, index) - 1) :
                   Edited(handleDetailChange(edHeap, edDoc, section, index, detail, TypedValue),
                          Operation("changeDetail", section, index, detail, "", TypedValue))

RemoveDetail ==
    /\ edCount < MaxEdits
    /\ \E section \in DetailSections :
           \E index \in 0..(ItemCount(section) - 1) :
               \E detail \in 0..(DetailCount(section, index) - 1) :
                   Edited(handleRemoveDetail(edHeap, edDoc, section, index, detail),
                          Operation("removeDetail", section, index, detail, "", <<>>))

MoveItem ==
    /\ edCount < MaxEdits
    /\ \E section \in DOMAIN EntryFields :
           \E index \in 0..(ItemCount(section) - 1), direction \in {"up", "down"} :
               Edited(handleMoveItem(edHeap, edDoc, section, index, direction),
                      Operation("move", section, index, 0, direction, <<>>))

EditNext ==
    \/ ChangeContact
    \/ ChangeSummary
    \/ ChangeEntry
    \/ ChangeSkillsText
    \/ AddItem
    \/ RemoveItem
    \/ AddDetail
    \/ ChangeDetail
    \/ RemoveDetail
    \/ MoveItem

SpecEdit == EditInit /\ [][EditNext]_vars
-----------------------------------------------------------------------------
(* Properties of the editing session *)

\* C21: after every operation of the editor the document that the editor had
\* before the operation still holds what it held, with its entries and lists
PreviousDocumentUnchanged ==
    edPrev # 0 => DocumentAt(edHeap, edPrev) = edPrevValue

\* the document after the last operation, and the list of the entry that the
\* last operation was about as it was before the operation
CurrentDocument == DocumentAt(edHeap, edDoc)

PreviousDetails == edPrevValue[edLast.section][edLast.index + 1].list

\* C24: a removal of the only bullet of an experience or a project, of the
\* only skill of a category, or of the only skill category leaves the content
\* of the document as it was
LastElementKept ==
    /\ (edLast # Null /\ edLast.op = "removeDetail" /\ Len(PreviousDetails) = 1)
           => CurrentDocument = edPrevValue
    /\ (edLast # Null /\ edLast.op = "removeItem" /\ edLast.section = "skills"
            /\ Len(edPrevValue.skills) = 1)
           => CurrentDocument = edPrevValue

\* the removal of the only skill of a category was asked for, after the other
\* skill of the category had been removed
OnlySkillRemovalAsked ==
    /\ edLast # Null /\ edLast.op = "removeDetail" /\ edLast.section = "skills"
    /\ Len(PreviousDetails) = 1
    /\ edCount = 2

\* the list of a section with the items at two places exchanged
Swapped(list, i, j) == [list EXCEPT ![i] = list[j], ![j] = list[i]]

\* the place the last move was to take the item to
MoveTarget == IF edLast.name = "up" THEN edLast.index ELSE edLast.index + 2

\* after a move: at the first place upwards and at the last place downwards
\* the document is as it was, otherwise it is as it was but for the two
\* exchanged items of the section
MoveExchangesNeighbours ==
    (edLast # Null /\ edLast.op = "move") =>
        IF MoveTarget < 1 \/ MoveTarget > Len(edPrevValue[edLast.section])
        THEN CurrentDocument = edPrevValue
        ELSE CurrentDocument =
                 [edPrevValue EXCEPT
                     ![edLast.section] = Swapped(@, edLast.index + 1, MoveTarget)]

\* an item moved up and then moved down again leaves the document as it was
\* before the two moves
UpThenDownRestores ==
    (/\ edLast # Null /\ edLast.op = "move" /\ edLast.name = "up" /\ edLast.index > 0
     /\ edLast'.op = "move" /\ edLast'.name = "down"
     /\ edLast'.section = edLast.section /\ edLast'.index = edLast.index - 1)
        => CurrentDocument' = edPrevValue

\* C25: handleMoveItem only reorders: it changes nothing at the ends of a
\* list, otherwise it exchanges the item with its neighbour and leaves the rest
\* of the document, and moving an item up and then down restores the order
MoveOnlyReorders == []MoveExchangesNeighbours /\ [][UpThenDownRestores]_vars

\* the second item of a list of three was moved up
MiddleItemMovedUp ==
    /\ edLast # Null /\ edLast.op = "move" /\ edLast.name = "up" /\ edLast.index = 1
    /\ Len(edPrevValue[edLast.section]) = 3
    /\ CurrentDocument # edPrevValue

\* C30: after a change of the text area of a skill category, the skills of
\* the category are the lines of the text, in their order, and the name of the
\* category and the other categories are as they were
SkillsAreEnteredLines ==
    (edLast # Null /\ edLast.op = "skillsText") =>
        CurrentDocument =
            [edPrevValue EXCEPT
                !.skills[edLast.index + 1].list = Split(edLast.value, NL)]
-----------------------------------------------------------------------------
(* The resume store under any sequence of its actions                      *)

\* the files, descriptions, results, errors and documents handed to the
\* actions of the store
StoreFiles == {[name |-> "resume.pdf", type |-> PdfType, readable |-> TRUE, text |-> <<>>]}

StoreTexts ==
    {SourceText([order |-> <<"experience", "education", "skills">>, n |-> 1,
                 detail |-> "full"]),
     <<>>}

StoreResults ==
    {[score |-> 90, original |-> <<>>, optimized |-> text, rule_based |-> text,
      optimized_with_ai |-> TRUE] : text \in StoreTexts}

\* what setResult stores for a result: the result and the documents parsed
\* from its optimized and its original text
StoredResult ==
    [result \in StoreResults |->
        [resumeData |-> parseResumeText(result.optimized),
         originalResumeData |-> parseResumeText(result.original)]]

\* the documents handed to setResumeData and setOriginalResumeData
StoreDocuments == {parseResumeText(text) : text \in StoreTexts}

StoreErrors == {"null", "Request failed with status code"}

StoreViews == {"original", "rule_based", "optimized"}

StoreTemplates == {"modern", "classic"}

\* the partial documents handed to updateResumeData: one field, another
\* field, a whole document
PartialDocuments ==
    {[summary |-> TypedValue],
     [experience |-> <<>>],
     parseResumeText(<<>>)}

\* { ...base, ...partialData }
Merged(base, partialData) ==
    [f \in DOMAIN base \cup DOMAIN partialData |->
        IF f \in DOMAIN partialData THEN partialData[f] ELSE base[f]]

getEmptyResumeData ==
    [contactInfo |-> [name |-> "", email |-> <<>>, phone |-> <<>>, location |-> <<>>],
     summary |-> <<>>,
     experience |-> <<>>,
     education |-> <<>>,
     skills |-> [categories |-> <<>>]]

\* resumeData and originalResumeData of the store
StoreData ==
    IF stData = Null THEN [resumeData |-> Null, originalResumeData |-> Null] ELSE stData

StoreInit ==
    /\ OptimizeIdle /\ ViewIdle
    /\ RewriteIdle /\ ExtractIdle /\ RenderIdle /\ EditIdle /\ PdfIdle

setFile ==
    /\ \E file \in StoreFiles \cup {Null} : stFile' = file
    /\ UNCHANGED <<stJob, stLoading, stResult, stError, stData, pgStep, opReqs>>
    /\ UNCHANGED <<rwVars, exVars, rnVars, edVars, pdVars, tmVars>>

setJobDescription ==
    /\ \E jobDescription \in {<<>>, TypedValue} : stJob' = jobDescription
    /\ UNCHANGED <<stFile, stLoading, stResult, stError, stData, pgStep, opReqs>>
    /\ UNCHANGED <<rwVars, exVars, rnVars, edVars, pdVars, tmVars>>

startOptimization ==
    /\ stLoading' = TRUE
    /\ stError' = "null"
    /\ UNCHANGED <<stFile, stJob, stResult, stData, pgStep, opReqs>>
    /\ UNCHANGED <<rwVars, exVars, rnVars, edVars, pdVars, tmVars>>

setResult ==
    /\ \E result \in StoreResults :
          /\ stResult' = result
          /\ stData' = StoredResult[result]
    /\ stLoading' = FALSE
    /\ UNCHANGED <<stFile, stJob, stError, pgStep, opReqs>>
    /\ UNCHANGED <<rwVars, exVars, rnVars, edVars, pdVars, tmVars>>

\* set({ error }): the error is set and isLoading is left as it is
setErrorOnly ==
    /\ \E error \in StoreErrors : stError' = error
    /\ UNCHANGED <<stFile, stJob, stLoading, stResult, stData, pgStep, opReqs>>
    /\ UNCHANGED <<rwVars, exVars, rnVars, edVars, pdVars, tmVars>>

setError ==
    /\ \E error \in StoreErrors : stError' = error
    /\ stLoading' = FALSE
    /\ UNCHANGED <<stFile, stJob, stResult, stData, pgStep, opReqs>>
    /\ UNCHANGED <<rwVars, exVars, rnVars, edVars, pdVars, tmVars>>

setCurrentView ==
    /\ \E currentView \in StoreViews : stView' = currentView
    /\ UNCHANGED <<stTemplate, stOptions, stSection>>
    /\ UNCHANGED <<rwVars, exVars, opVars, rnVars, edVars, pdVars>>

setResumeData ==
    /\ \E resumeData \in StoreDocuments :
          stData' = [StoreData EXCEPT !.resumeData = resumeData]
    /\ UNCHANGED <<stFile, stJob, stLoading, stResult, stError, pgStep, opReqs>>
    /\ UNCHANGED <<rwVars, exVars, rnVars, edVars, pdVars, tmVars>>

setOriginalResumeData ==
    /\ \E originalResumeData \in StoreDocuments :
          stData' = [StoreData EXCEPT !.originalResumeData = originalResumeData]
    /\ UNCHANGED <<stFile, stJob, stLoading, stResult, stError, pgStep, opReqs>>
    /\ UNCHANGED <<rwVars, exVars, rnVars, edVars, pdVars, tmVars>>

setSelectedTemplate ==
    /\ \E templateId \in StoreTemplates :
          /\ stTemplate' = templateId
          /\ stOptions' = DefaultOptionsOf(templateId)
    /\ UNCHANGED <<stView, stSection>>
    /\ UNCHANGED <<rwVars, exVars, opVars, rnVars, edVars, pdVars>>

setDesignOptions ==
    /\ stOptions' = [fontSize |-> "large"]
    /\ UNCHANGED <<stView, stTemplate, stSection>>
    /\ UNCHANGED <<rwVars, exVars, opVars, rnVars, edVars, pdVars>>

setActiveSection ==
    /\ \E activeSection \in {"contactInfo", "summary"} : stSection' = activeSection
    /\ UNCHANGED <<stView, stTemplate, stOptions>>
    /\ UNCHANGED <<rwVars, exVars, opVars, rnVars, edVars, pdVars>>

updateResumeData ==
    /\ \E partialData \in PartialDocuments :
          stData' = [StoreData EXCEPT
                        !.resumeData =
                            IF StoreData.resumeData # Null
                            THEN Merged(StoreData.resumeData, partialData)
                            ELSE Merged(getEmptyResumeData, partialData)]
    /\ UNCHANGED <<stFile, stJob, stLoading, stResult, stError, pgStep, opReqs>>
    /\ UNCHANGED <<rwVars, exVars, rnVars, edVars, pdVars, tmVars>>

reset ==
    /\ stFile' = Null
    /\ stJob' = <<>>
    /\ stLoading' = FALSE
    /\ stResult' = Null
    /\ stError' = "null"
    /\ stData' = Null
    /\ stView' = "optimized"
    /\ stTemplate' = "modern"
    /\ stOptions' = DefaultOptionsOf("modern")
    /\ stSection' = "contactInfo"
    /\ UNCHANGED <<pgStep, opReqs>>
    /\ UNCHANGED <<rwVars, exVars, rnVars, edVars, pdVars>>

StoreNext ==
    \/ setFile
    \/ setJobDescription
    \/ startOptimization
    \/ setResult
    \/ setError
    \/ setCurrentView
    \/ setResumeData
    \/ setOriginalResumeData
    \/ setSelectedTemplate
    \/ setDesignOptions
    \/ setActiveSection
    \/ updateResumeData
    \/ reset

SpecStore == StoreInit /\ [][StoreNext]_vars

\* C22: in every state of the store reached by its actions, isLoading is true
\* only while error is null
LoadingWithoutError == stLoading => stError = "null"

\* the store is loading after a result had been stored
LoadingAgain == stLoading /\ stResult # Null /\ stError = "null"

\* C23: in every state of the store reached by its actions, a resumeData that
\* is not null has all the fields of ResumeData
ResumeDataFields ==
    {"contactInfo", "summary", "experience", "education", "skills", "projects",
     "certifications", "additionalSections"}

ResumeDataComplete ==
    StoreData.resumeData # Null =>
        /\ ResumeDataFields \subseteq DOMAIN StoreData.resumeData
        /\ "categories" \in DOMAIN StoreData.resumeData.skills
-----------------------------------------------------------------------------
(* The optimize page at its second step, with the form submitted again     *)
(* while a request is waiting for its response                             *)

MaxSubmissions == 2

\* a file has been dropped and the Continue button pressed
ResubmitInit ==
    /\ stFile \in {file \in OptimizeFiles : file.name = "resume.txt"}
    /\ stJob = <<>>
    /\ stLoading = FALSE
    /\ stResult = Null
    /\ stError = "null"
    /\ stData = Null
    /\ pgStep = 2
    /\ opReqs = <<>>
    /\ RewriteIdle /\ ExtractIdle /\ RenderIdle /\ EditIdle /\ PdfIdle /\ ViewIdle

\* handleSubmit, up to the await of the call to the route; the submit button
\* of the form is enabled whether or not the store is loading
Resubmit ==
    /\ pgStep = 2
    /\ Len(opReqs) < MaxSubmissions
    /\ IF stFile = Null
       THEN UNCHANGED <<stLoading, stError, opReqs>>
       ELSE /\ stLoading' = TRUE
            /\ stError' = "null"
            /\ opReqs' = Append(opReqs, [file |-> stFile, jobDescription |-> stJob,
                                         state |-> "sent", backend |-> NotCalled,
                                         response |-> Null])
    /\ UNCHANGED <<stFile, stJob, stResult, stData, pgStep>>
    /\ UNCHANGED <<rwVars, exVars, rnVars, edVars, pdVars, tmVars>>

ResubmitNext ==
    \/ Resubmit
    \/ RouteResponds
    \/ PageReceives

SpecResubmit == ResubmitInit /\ [][ResubmitNext]_vars

\* C26: while a request of the page waits for its response, the store is
\* loading
LoadingWhilePending ==
    (\E i \in DOMAIN opReqs : opReqs[i].state # "received") => stLoading
-----------------------------------------------------------------------------
(* The texts of the PDF exporter *)

DotPdf ==
    <<".", "p", "d", "f">>

DotTxt ==
    <<".", "t", "x", "t">>

\* the file names and the contents that the exporter is given
ExportFilenames ==
    {<<"r", "e", "s", "u", "m", "e", ".", "p", "d", "f">>,
     <<"c", "v", ".", "p", "d", "f", ".", "p", "d", "f">>}

ExportContents ==
    {<<"J", "a", "n", "e", " ", "D", "o", "e", "\n", "S", "K", "I", "L", "L", "S", "\n", "G", "o">>,
     <<>>}

-----------------------------------------------------------------------------
(* The PDF exporter: generatePdf and its fallback to a text download       *)

MaxPdfRuns == 3

\* downloadTextFallback whose isLoading is not set back
downloadTextFallbackLoading(content, filename, outcomes, blobThrows) ==
    [outcomes |->
         IF blobThrows
         THEN Append(outcomes, [kind |-> "alert", content |-> <<>>, filename |-> <<>>])
         ELSE Append(outcomes, [kind |-> "text", content |-> content,
                                filename |-> ReplaceFirstText(filename, DotPdf, DotTxt)]),
     isLoading |-> TRUE]

\* downloadTextFallback: the text download, or the alert that nothing could be
\* generated when the download throws, and in both cases isLoading is false
downloadTextFallback(content, filename, outcomes, blobThrows) ==
    [outcomes |->
         IF blobThrows
         THEN Append(outcomes, [kind |-> "alert", content |-> <<>>, filename |-> <<>>])
         ELSE Append(outcomes, [kind |-> "text", content |-> content,
                                filename |-> ReplaceFirstText(filename, DotPdf, DotTxt)]),
     isLoading |-> FALSE]

\* the exporter is mounted with its content and its file name
PdfInit ==
    /\ pdContent \in ExportContents
    /\ pdFilename \in ExportFilenames
    /\ pdLoading = FALSE
    /\ pdPc = "idle"
    /\ pdOutcomes = <<>>
    /\ pdRuns = 0
    /\ RewriteIdle /\ ExtractIdle /\ OptimizeIdle /\ RenderIdle /\ EditIdle /\ ViewIdle

\* the fallback has run
FellBack(blobThrows) ==
    LET result == downloadTextFallback(pdContent, pdFilename, pdOutcomes, blobThrows)
    IN /\ pdOutcomes' = result.outcomes
       /\ pdLoading' = result.isLoading
       /\ pdPc' = "idle"

\* generatePdf: the click on the button, which is disabled while isLoading;
\* the script of pdfmake is added to the page
GeneratePdf ==
    /\ ~pdLoading
    /\ pdRuns < MaxPdfRuns
    /\ pdLoading' = TRUE
    /\ pdRuns' = pdRuns + 1
    /\ pdPc' = "script"
    /\ UNCHANGED <<pdContent, pdFilename, pdOutcomes>>
    /\ UNCHANGED <<rwVars, exVars, opVars, rnVars, edVars, tmVars>>

\* script.onload: the script of the fonts is added to the page
ScriptLoaded ==
    /\ pdPc = "script"
    /\ pdPc' = "vfs"
    /\ UNCHANGED <<pdContent, pdFilename, pdLoading, pdOutcomes, pdRuns>>
    /\ UNCHANGED <<rwVars, exVars, opVars, rnVars, edVars, tmVars>>

\* script.onerror
ScriptFailed ==
    /\ pdPc = "script"
    /\ \E blobThrows \in BOOLEAN : FellBack(blobThrows)
    /\ UNCHANGED <<pdContent, pdFilename, pdRuns>>
    /\ UNCHANGED <<rwVars, exVars, opVars, rnVars, edVars, tmVars>>

\* vfsScript.onload: the PDF is created and downloaded, or the creation throws
\* and the fallback runs
VfsLoaded ==
    /\ pdPc = "vfs"
    /\ \E createThrows \in BOOLEAN :
          IF createThrows
          THEN \E blobThrows \in BOOLEAN : FellBack(blobThrows)
          ELSE /\ pdOutcomes' = Append(pdOutcomes, [kind |-> "pdf", content |-> pdContent,
                                                    filename |-> pdFilename])
               /\ pdLoading' = FALSE
               /\ pdPc' = "idle"
    /\ UNCHANGED <<pdContent, pdFilename, pdRuns>>
    /\ UNCHANGED <<rwVars, exVars, opVars, rnVars, edVars, tmVars>>

\* vfsScript.onerror
VfsFailed ==
    /\ pdPc = "vfs"
    /\ \E blobThrows \in BOOLEAN : FellBack(blobThrows)
    /\ UNCHANGED <<pdContent, pdFilename, pdRuns>>
    /\ UNCHANGED <<rwVars, exVars, opVars, rnVars, edVars, tmVars>>

PdfNext ==
    \/ GeneratePdf
    \/ ScriptLoaded
    \/ ScriptFailed
    \/ VfsLoaded
    \/ VfsFailed

\* a script that was added to the page reports its load or its error
ScriptReports == ScriptLoaded \/ ScriptFailed

VfsReports == VfsLoaded \/ VfsFailed

SpecPdf ==
    PdfInit /\ [][PdfNext]_vars /\ WF_vars(ScriptReports) /\ WF_vars(VfsReports)

\* every generation that has ended has one outcome, and the one that is under
\* way has none yet
OneOutcomeEach ==
    /\ Len(pdOutcomes) = IF pdLoading THEN pdRuns - 1 ELSE pdRuns
    /\ \A i \in 1..Len(pdOutcomes) :
          \/ pdOutcomes[i].kind \in {"pdf", "alert"}
          \/ pdOutcomes[i].kind = "text" /\ pdOutcomes[i].content = pdContent

\* C29: every generation that generatePdf starts ends with isLoading false and
\* with one outcome: the PDF download, the text download of the same content,
\* or the alert that nothing could be generated
GenerationEnds == (pdLoading ~> ~pdLoading) /\ []OneOutcomeEach

\* a generation whose PDF creation or script load failed has ended with the
\* download of the text
TextDownloaded ==
    /\ ~pdLoading
    /\ pdRuns = 1
    /\ Len(pdOutcomes) = 1
    /\ pdOutcomes[1].kind = "text"
    /\ pdOutcomes[1].content = pdContent
=============================================================================
